---- MODULE Spec2Model ----
(***************************************************************************)
(* mongo-job-scheduler: the acquire / execute / finalize pipeline.         *)
(*                                                                         *)
(* The job store (InMemoryJobStore and MongoJobStore), the Worker loop    *)
(* with its heartbeat, and the Scheduler that starts and stops workers,    *)
(* as a state machine over a shared job collection and a shared clock.     *)
(* Time is counted in ticks; one tick stands for 100 ms.                   *)
(***************************************************************************)
EXTENDS Integers, FiniteSets, Sequences, TLC

\* ------------------------------------------------------------------------
\* Bounds of the model
\* ------------------------------------------------------------------------
MaxTime == 3
MaxUpdates == 1

\* ------------------------------------------------------------------------
\* Program constants and configuration
\* ------------------------------------------------------------------------
\* Scheduler option lockTimeoutMs, in ticks
LockTimeoutMs == 2
\* heartbeatIntervalMs = Math.max(50, lockTimeout / 2), in ticks
HeartbeatIntervalMs == 1
\* Math.max(job.repeat.every, 100): the floor of 100 ms is one tick
MinEveryMs == 1
\* The cron expression of the model fires every CronPeriod ticks
CronPeriod == 2
\* priority: job.priority ?? 5
DefaultPriority == 5

Absent == -1
NoWorker == "none"

Schedulers == {"A", "B"}
\* workerId = `${this.id}-w${i}`, workerCount = 1
WorkerIdOf(s) == IF s = "A" THEN "A-w0" ELSE "B-w0"
WorkerIds == {WorkerIdOf(s) : s \in Schedulers}

\* The job the schedulers work on, and the jobs of the store-level scenarios
JobIds == {1}
StoreJobIds == {1, 2}
Stores == {"memory", "mongo"}

NoRepeat == [cron |-> 0, every |-> Absent]
NoRetry == [maxAttempts |-> 0, delay |-> 0]

\* A job as Scheduler.schedule builds it and the store inserts it
NewJob(name, repeat, retry, concurrency, priority) ==
  [name |-> name, status |-> "pending", nextRunAt |-> 0,
   lastScheduledAt |-> Absent,
   lockedAt |-> Absent, lockedBy |-> NoWorker, lockUntil |-> Absent,
   lockVersion |-> 0, attempts |-> 0,
   priority |-> priority, concurrency |-> concurrency,
   repeat |-> repeat, retry |-> retry]

\* The jobs scheduled before the workers start
\* (name "a" carries the concurrency cap 1, name "b" has no cap)
Templates ==
  { NewJob("a", NoRepeat, NoRetry, 1, DefaultPriority),
    NewJob("a", NoRepeat, [maxAttempts |-> 2, delay |-> 0], 1, DefaultPriority),
    NewJob("b", [cron |-> 0, every |-> 0], [maxAttempts |-> 2, delay |-> 1], 0, DefaultPriority),
    NewJob("b", [cron |-> CronPeriod, every |-> Absent], NoRetry, 0, 1) }

VARIABLES
  store,      \* which JobStore implementation the schedulers share
  jobs,       \* the job collection: job id -> record
  now,        \* the shared wall clock
  started,    \* Scheduler.started, per scheduler
  running,    \* Worker.running, per scheduler's worker
  pc,         \* position of the worker in loop() / execute()
  snap,       \* the job object findAndLockNext returned to the worker
  hb,         \* heartbeat loop: Absent when stopped, else the next due time
  updates,    \* number of Scheduler.updateJob calls made so far
  stats,      \* handler invocations and job:retry / job:fail events counted
              \* in the retry scenario (stats.on)
  last        \* the last direct call of a store operation and its result

vars == <<store, jobs, now, started, running, pc, snap, hb, updates, stats, last>>
workerVars == <<started, running, pc, snap, hb, updates, stats>>

\* No store operation was called directly
NoCall == [op |-> "none", job |-> 0, by |-> NoWorker, result |-> 0, seq |-> 0]

\* findAndLockNext returned null
NoSnap == [id |-> 0, at |-> 0, attempts |-> 0, nextRunAt |-> 0,
           lastScheduledAt |-> Absent, repeat |-> NoRepeat, retry |-> NoRetry]

\* ------------------------------------------------------------------------
\* JobStore operations, as functions of the collection
\* ------------------------------------------------------------------------

\* countRunning / the filter inside findAndLockNext
RunningCount(js, name) ==
  Cardinality({i \in DOMAIN js : js[i].name = name /\ js[i].status = "running"})

\* The lock test of findAndLockNext: a recorded lock younger than the timeout
LockActive(job, t, lockTimeoutMs) ==
  job.lockedAt # Absent /\ t - job.lockedAt < lockTimeoutMs

\* (variant: a running job whose lock has timed out is taken as well)
MemoryEligible_AnyStatus(js, i, t, lockTimeoutMs) ==
  /\ js[i].status \in {"pending", "running"}
  /\ ~(js[i].nextRunAt > t)
  /\ ~(js[i].lockedAt # Absent /\ t - js[i].lockedAt < lockTimeoutMs)

\* InMemoryJobStore.findAndLockNext: the conditions under which a job of the
\* sorted list is taken rather than skipped
MemoryEligible(js, i, t, lockTimeoutMs) ==
  /\ js[i].status = "pending"
  /\ ~(js[i].nextRunAt > t)
  /\ ~LockActive(js[i], t, lockTimeoutMs)
  /\ ~(js[i].concurrency > 0 /\ RunningCount(js, js[i].name) >= js[i].concurrency)

\* The comparator of the sort: priority, then nextRunAt; the sort is stable,
\* so equal keys keep insertion order
MemoryBefore(js, a, b) ==
  \/ js[a].priority < js[b].priority
  \/ js[a].priority = js[b].priority /\ js[a].nextRunAt < js[b].nextRunAt
  \/ js[a].priority = js[b].priority /\ js[a].nextRunAt = js[b].nextRunAt /\ a < b

\* MongoJobStore.findAndLockNext: the filter of findOneAndUpdate
MongoEligible(js, i, t, lockTimeoutMs) ==
  /\ js[i].status = "pending"
  /\ js[i].nextRunAt <= t
  /\ (js[i].lockedAt = Absent \/ js[i].lockedAt <= t - lockTimeoutMs)

\* The jobs a findAndLockNext call may return (none: the call returns null)
Candidates(st, js, t, lockTimeoutMs) ==
  IF st = "memory"
  THEN LET el == {i \in DOMAIN js : MemoryEligible(js, i, t, lockTimeoutMs)}
       IN {i \in el : \A k \in el \ {i} : MemoryBefore(js, i, k)}
  ELSE LET el == {i \in DOMAIN js : MongoEligible(js, i, t, lockTimeoutMs)}
       IN {i \in el : \A k \in el : js[i].nextRunAt <= js[k].nextRunAt}

\* The mutation findAndLockNext applies to the job it selected
LockJob(js, i, t, w) ==
  [js EXCEPT ![i] = [@ EXCEPT !.status = "running", !.lockedAt = t,
                               !.lockedBy = w]]

\* markCompleted(jobId): the memory store leaves the lock fields, the
\* mongo store unsets them
MarkCompleted(st, js, i) ==
  IF st = "memory"
  THEN [js EXCEPT ![i] = [@ EXCEPT !.status = "completed"]]
  ELSE [js EXCEPT ![i] = [@ EXCEPT !.status = "completed",
                                   !.lockedAt = Absent, !.lockedBy = NoWorker]]

\* markFailed(jobId, error)
MarkFailed(st, js, i) ==
  IF st = "memory"
  THEN [js EXCEPT ![i] = [@ EXCEPT !.status = "failed"]]
  ELSE [js EXCEPT ![i] = [@ EXCEPT !.status = "failed",
                                   !.lockedAt = Absent, !.lockedBy = NoWorker]]

\* reschedule(jobId, nextRunAt, updates): att is Absent when no attempts are
\* passed. The memory store then increments attempts and always records
\* lastScheduledAt; the mongo store sets only what it is given.
Reschedule(st, js, i, next, att) ==
  IF st = "memory"
  THEN [js EXCEPT ![i] = [@ EXCEPT !.status = "pending", !.nextRunAt = next,
                                   !.attempts = IF att # Absent THEN att ELSE @ + 1,
                                   !.lockedAt = Absent, !.lockedBy = NoWorker,
                                   !.lastScheduledAt = next]]
  ELSE [js EXCEPT ![i] = [@ EXCEPT !.status = "pending", !.nextRunAt = next,
                                   !.attempts = IF att # Absent THEN att ELSE @,
                                   !.lockedAt = Absent, !.lockedBy = NoWorker]]

\* recoverStaleJobs({now, lockTimeoutMs}): the jobs it resets
Stale(st, js, t, lockTimeoutMs) ==
  IF st = "memory"
  THEN {i \in DOMAIN js : js[i].status = "running" /\ js[i].lockedAt # Absent
                          /\ t - js[i].lockedAt > lockTimeoutMs}
  ELSE {i \in DOMAIN js : js[i].lockedAt # Absent
                          /\ js[i].lockedAt <= t - lockTimeoutMs}

\* (variant: the recovered job is set to pending but keeps its lock fields)
RecoverStaleJobs_KeepLock(st, js, t, lockTimeoutMs) ==
  [i \in DOMAIN js |->
     IF i \in Stale(st, js, t, lockTimeoutMs)
     THEN [js[i] EXCEPT !.status = "pending"]
     ELSE js[i]]

RecoverStaleJobs(st, js, t, lockTimeoutMs) ==
  [i \in DOMAIN js |->
     IF i \in Stale(st, js, t, lockTimeoutMs)
     THEN [js[i] EXCEPT !.status = "pending", !.lockedAt = Absent,
                        !.lockedBy = NoWorker]
     ELSE js[i]]

\* cancel(jobId)
CancelJob(js, i) ==
  [js EXCEPT ![i] = [@ EXCEPT !.status = "cancelled", !.lockedAt = Absent,
                             !.lockedBy = NoWorker]]

\* renewLock(jobId, workerId): the match condition and the mutation
RenewMatches(js, i, w) == js[i].status = "running" /\ js[i].lockedBy = w

RenewLock(js, i, t) == [js EXCEPT ![i] = [@ EXCEPT !.lockedAt = t]]

\* update(jobId, {attempts}): the mongo store copies only data, nextRunAt,
\* retry, repeat and status
UpdateAttempts(st, js, i, att) ==
  IF st = "memory"
  THEN [js EXCEPT ![i] = [@ EXCEPT !.attempts = att]]
  ELSE js

\* update(jobId, {nextRunAt, status})
UpdateSchedule(js, i, next, status) ==
  [js EXCEPT ![i] = [@ EXCEPT !.nextRunAt = next, !.status = status]]

\* ------------------------------------------------------------------------
\* RepeatPlanner and RetryPolicy
\* ------------------------------------------------------------------------
Max(a, b) == IF a >= b THEN a ELSE b

\* getNextRunAt(repeat, base): interval.next() of the cron parser is the first
\* slot strictly after base; the every branch adds the interval to base
GetNextRunAt(repeat, base) ==
  IF repeat.every # Absent
  THEN base + repeat.every
  ELSE ((base \div repeat.cron) + 1) * repeat.cron

\* (variant: the first slot after the base is taken, missed or not)
SkipMissed_None(repeat, next, execNow) == next

\* The loop of Worker.execute that skips the slots not after execNow
RECURSIVE SkipMissed(_, _, _)
SkipMissed(repeat, next, execNow) ==
  IF next <= execNow
  THEN SkipMissed(repeat, GetNextRunAt(repeat, next), execNow)
  ELSE next

\* base = job.lastScheduledAt ?? job.nextRunAt ?? new Date(now)
CronBase(job) ==
  IF job.lastScheduledAt # Absent THEN job.lastScheduledAt ELSE job.nextRunAt

\* (variant: the retry is scheduled without its delay)
GetRetryDelay_None(retry, attempts) == 0

\* getRetryDelay(retry, attempts) for a numeric delay
GetRetryDelay(retry, attempts) == retry.delay

\* if (typeof retry === "number") retry = { maxAttempts: retry, delay: 0 };
\* the bare number n is written [number |-> n]
NormalizeRetry(retry) ==
  IF "number" \in DOMAIN retry
  THEN [maxAttempts |-> retry.number, delay |-> 0]
  ELSE retry

\* retry && attempts < retry.maxAttempts
ShouldRetry(retry, attempts) == retry # NoRetry /\ attempts < retry.maxAttempts

\* One more handler invocation or event, where they are counted
Count(st, f) == IF st.on THEN [st EXCEPT ![f] = @ + 1] ELSE st

\* ------------------------------------------------------------------------
\* Initial state: the jobs are scheduled, no scheduler is started
\* ------------------------------------------------------------------------
Init ==
  /\ store \in Stores
  /\ jobs \in [JobIds -> Templates]
  /\ now = 0
  /\ started = [s \in Schedulers |-> FALSE]
  /\ running = [s \in Schedulers |-> FALSE]
  /\ pc = [s \in Schedulers |-> "idle"]
  /\ snap = [s \in Schedulers |-> NoSnap]
  /\ hb = [s \in Schedulers |-> Absent]
  /\ updates = 0
  /\ stats = [on |-> FALSE, runs |-> 0, retries |-> 0, fails |-> 0]
  /\ last = NoCall

\* ------------------------------------------------------------------------
\* Scheduler
\* ------------------------------------------------------------------------

\* Scheduler.start(): recoverStaleJobs once, then a new Worker is started.
\* The worker of the previous start has left its loop.
Start(s) ==
  /\ ~started[s]
  /\ pc[s] = "idle"
  /\ started' = [started EXCEPT ![s] = TRUE]
  /\ jobs' = RecoverStaleJobs(store, jobs, now, LockTimeoutMs)
  /\ running' = [running EXCEPT ![s] = TRUE]
  /\ UNCHANGED <<store, now, pc, snap, hb, updates, stats, last>>

\* Scheduler.stop(): Worker.stop() clears the running flag
Stop(s) ==
  /\ started[s]
  /\ started' = [started EXCEPT ![s] = FALSE]
  /\ running' = [running EXCEPT ![s] = FALSE]
  /\ UNCHANGED <<store, jobs, now, pc, snap, hb, updates, stats, last>>

\* Scheduler.cancel(jobId)
Cancel(i) ==
  /\ jobs[i].status # "cancelled"
  /\ jobs' = CancelJob(jobs, i)
  /\ UNCHANGED <<store, now, started, running, pc, snap, hb, updates, stats, last>>

\* Scheduler.updateJob(jobId, {nextRunAt}): the status is reset to pending
UpdateJob(i, next) ==
  /\ updates < MaxUpdates
  /\ updates' = updates + 1
  /\ jobs' = UpdateSchedule(jobs, i, next, "pending")
  /\ UNCHANGED <<store, now, started, running, pc, snap, hb, stats, last>>

\* ------------------------------------------------------------------------
\* Worker
\* ------------------------------------------------------------------------

\* The copy of the locked job that findAndLockNext returns, with the instant
\* the worker reads as `now` when execute() begins
Snapshot(i, job, t) ==
  [id |-> i, at |-> t, attempts |-> job.attempts, nextRunAt |-> job.nextRunAt,
   lastScheduledAt |-> job.lastScheduledAt, repeat |-> job.repeat,
   retry |-> job.retry]

\* Worker.loop: the findAndLockNext call
Poll(s) ==
  /\ pc[s] = "idle"
  /\ running[s]
  /\ pc' = [pc EXCEPT ![s] = "polled"]
  /\ LET c == Candidates(store, jobs, now, LockTimeoutMs) IN
       IF c = {}
       THEN /\ snap' = [snap EXCEPT ![s] = NoSnap]
            /\ jobs' = jobs
       ELSE \E i \in c :
              /\ jobs' = LockJob(jobs, i, now, WorkerIdOf(s))
              /\ snap' = [snap EXCEPT ![s] = Snapshot(i, jobs'[i], now)]
  /\ UNCHANGED <<store, now, started, running, hb, updates, stats, last>>

\* (variant: the pre-flight check does not compare lockedBy)
PreFlightOk_AnyOwner(js, i, w) ==
  /\ js[i].status # "cancelled"
  /\ js[i].status = "running"

\* The pre-flight check of execute(): the job is still ours and running
PreFlightOk(js, i, w) ==
  /\ js[i].status # "cancelled"
  /\ js[i].lockedBy = w
  /\ js[i].status = "running"

\* Worker.loop after the poll: leave when stopped, sleep when there is no job,
\* else execute(): start the heartbeat, re-read the job and check ownership
AfterPoll(s) ==
  /\ pc[s] = "polled"
  /\ IF ~running[s] \/ snap[s].id = 0
     THEN /\ pc' = [pc EXCEPT ![s] = "idle"]
          /\ snap' = [snap EXCEPT ![s] = NoSnap]
          /\ hb' = hb
          /\ stats' = stats
     ELSE IF ~PreFlightOk(jobs, snap[s].id, WorkerIdOf(s))
     THEN /\ pc' = [pc EXCEPT ![s] = "idle"]
          /\ snap' = [snap EXCEPT ![s] = NoSnap]
          /\ hb' = [hb EXCEPT ![s] = Absent]
          /\ stats' = stats
     ELSE IF snap[s].repeat.cron # 0
     THEN /\ pc' = [pc EXCEPT ![s] = "cron"]
          /\ snap' = [snap EXCEPT ![s].at = now]
          /\ hb' = [hb EXCEPT ![s] = now + HeartbeatIntervalMs]
          /\ stats' = stats
     ELSE /\ pc' = [pc EXCEPT ![s] = "handler"]
          /\ snap' = [snap EXCEPT ![s].at = now]
          /\ hb' = [hb EXCEPT ![s] = now + HeartbeatIntervalMs]
          /\ stats' = Count(stats, "runs")
  /\ UNCHANGED <<store, jobs, now, started, running, updates, last>>

\* execute(): the cron pre-scheduling, then the handler is invoked
CronPreSchedule(s) ==
  /\ pc[s] = "cron"
  /\ LET job == snap[s]
         next == SkipMissed(job.repeat, GetNextRunAt(job.repeat, CronBase(job)),
                            job.at)
     IN /\ jobs' = Reschedule(store, jobs, job.id, next, Absent)
        /\ snap' = [snap EXCEPT ![s].lastScheduledAt = next]
  /\ pc' = [pc EXCEPT ![s] = "handler"]
  /\ stats' = Count(stats, "runs")
  /\ UNCHANGED <<store, now, started, running, hb, updates, last>>

\* (variant: the interval is added without the floor of 100 ms)
FinishSuccess_NoFloor(st, js, job, t) ==
  IF job.repeat.every # Absent
  THEN Reschedule(st, js, job.id, t + job.repeat.every, Absent)
  ELSE IF job.repeat = NoRepeat
  THEN MarkCompleted(st, js, job.id)
  ELSE js

\* The write execute() makes after the handler returned
FinishSuccess(st, js, job, t) ==
  IF job.repeat.every # Absent
  THEN Reschedule(st, js, job.id, t + Max(job.repeat.every, MinEveryMs), Absent)
  ELSE IF job.repeat = NoRepeat
  THEN MarkCompleted(st, js, job.id)
  ELSE js

\* execute(): the handler returns
HandlerSucceed(s) ==
  /\ pc[s] = "handler"
  /\ jobs' = FinishSuccess(store, jobs, snap[s], now)
  /\ pc' = [pc EXCEPT ![s] = "idle"]
  /\ snap' = [snap EXCEPT ![s] = NoSnap]
  /\ hb' = [hb EXCEPT ![s] = Absent]
  /\ UNCHANGED <<store, now, started, running, updates, stats, last>>

\* execute(): the handler throws; retry, or record the attempts before
\* markFailed
HandlerFail(s) ==
  /\ pc[s] = "handler"
  /\ LET job == snap[s]
         attempts == job.attempts + 1
         retry == NormalizeRetry(job.retry)
     IN IF ShouldRetry(retry, attempts)
        THEN /\ jobs' = Reschedule(store, jobs, job.id,
                                   now + GetRetryDelay(retry, attempts), attempts)
             /\ pc' = [pc EXCEPT ![s] = "idle"]
             /\ snap' = [snap EXCEPT ![s] = NoSnap]
             /\ hb' = [hb EXCEPT ![s] = Absent]
             /\ stats' = Count(stats, "retries")
        ELSE /\ jobs' = UpdateAttempts(store, jobs, job.id, attempts)
             /\ pc' = [pc EXCEPT ![s] = "failing"]
             /\ snap' = snap
             /\ hb' = hb
             /\ stats' = stats
  /\ UNCHANGED <<store, now, started, running, updates, last>>

\* execute(): markFailed after the attempts were recorded
FailJob(s) ==
  /\ pc[s] = "failing"
  /\ jobs' = MarkFailed(store, jobs, snap[s].id)
  /\ pc' = [pc EXCEPT ![s] = "idle"]
  /\ snap' = [snap EXCEPT ![s] = NoSnap]
  /\ hb' = [hb EXCEPT ![s] = Absent]
  /\ stats' = Count(stats, "fails")
  /\ UNCHANGED <<store, now, started, running, updates, last>>

\* heartbeatLoop: one renewLock once the interval has passed; a failed
\* renewal ends the loop
Heartbeat(s) ==
  /\ hb[s] # Absent
  /\ now >= hb[s]
  /\ IF RenewMatches(jobs, snap[s].id, WorkerIdOf(s))
     THEN /\ jobs' = RenewLock(jobs, snap[s].id, now)
          /\ hb' = [hb EXCEPT ![s] = now + HeartbeatIntervalMs]
     ELSE /\ jobs' = jobs
          /\ hb' = [hb EXCEPT ![s] = Absent]
  /\ UNCHANGED <<store, now, started, running, pc, snap, updates, stats, last>>

\* The clock advances
Tick ==
  /\ now < MaxTime
  /\ now' = now + 1
  /\ UNCHANGED <<store, jobs, started, running, pc, snap, hb, updates, stats, last>>

\* The schedulers, their workers and the clock
NextCore ==
  \/ \E s \in Schedulers : Start(s)
  \/ \E s \in Schedulers : Stop(s)
  \/ \E s \in Schedulers : Poll(s)
  \/ \E s \in Schedulers : AfterPoll(s)
  \/ \E s \in Schedulers : CronPreSchedule(s)
  \/ \E s \in Schedulers : HandlerSucceed(s)
  \/ \E s \in Schedulers : HandlerFail(s)
  \/ \E s \in Schedulers : FailJob(s)
  \/ \E s \in Schedulers : Heartbeat(s)
  \/ Tick

SpecCore == Init /\ [][NextCore]_vars

\* ... and the callers of Scheduler.cancel and Scheduler.updateJob
Next ==
  \/ NextCore
  \/ \E i \in JobIds : Cancel(i)
  \/ \E i \in JobIds : \E next \in {now, now + 1} : UpdateJob(i, next)

\* The clock advances only while no heartbeat is overdue and no worker is
\* between two store calls: the event loop is never blocked, every heartbeat
\* timer fires on time and store calls take no time; only handlers and the
\* sleep between polls last
TimelyTick ==
  /\ \A s \in Schedulers : hb[s] = Absent \/ now < hb[s]
  /\ \A s \in Schedulers : pc[s] \in {"idle", "handler"}
  /\ Tick

NextTimely ==
  \/ \E s \in Schedulers : Start(s)
  \/ \E s \in Schedulers : Stop(s)
  \/ \E s \in Schedulers : Poll(s)
  \/ \E s \in Schedulers : AfterPoll(s)
  \/ \E s \in Schedulers : CronPreSchedule(s)
  \/ \E s \in Schedulers : HandlerSucceed(s)
  \/ \E s \in Schedulers : HandlerFail(s)
  \/ \E s \in Schedulers : FailJob(s)
  \/ \E s \in Schedulers : Heartbeat(s)
  \/ TimelyTick

SpecTimely == Init /\ [][NextTimely]_vars

Spec == Init /\ [][Next]_vars

\* ------------------------------------------------------------------------
\* The retry scenario: one scheduler with one worker, one non-repeating job
\* with retry {maxAttempts, delay} or the bare number, a handler that always
\* throws; the scheduler may be stopped and started again
\* ------------------------------------------------------------------------
MaxRetryAttempts == 3

RetryConfigs ==
  {[maxAttempts |-> n, delay |-> d] : n \in 1..MaxRetryAttempts, d \in {0, 1}}
    \cup {[number |-> n] : n \in 1..MaxRetryAttempts}

InitRetry ==
  /\ store \in Stores
  /\ \E r \in RetryConfigs :
       jobs = [i \in JobIds |-> NewJob("a", NoRepeat, r, 0, DefaultPriority)]
  /\ now = 0
  /\ started = [s \in Schedulers |-> FALSE]
  /\ running = [s \in Schedulers |-> FALSE]
  /\ pc = [s \in Schedulers |-> "idle"]
  /\ snap = [s \in Schedulers |-> NoSnap]
  /\ hb = [s \in Schedulers |-> Absent]
  /\ updates = 0
  /\ stats = [on |-> TRUE, runs |-> 0, retries |-> 0, fails |-> 0]
  /\ last = NoCall

NextRetry ==
  \/ Start("A")
  \/ Stop("A")
  \/ Poll("A")
  \/ AfterPoll("A")
  \/ HandlerFail("A")
  \/ FailJob("A")
  \/ Heartbeat("A")
  \/ Tick

SpecRetry == InitRetry /\ [][NextRetry]_vars

TypeOK ==
  /\ store \in Stores
  /\ now \in 0..MaxTime
  /\ \A s \in Schedulers : pc[s] \in {"idle", "polled", "cron", "handler", "failing"}

\* ------------------------------------------------------------------------
\* The store on its own: callers invoke the JobStore operations directly,
\* in any order, at most MaxCalls times, on a collection of several jobs
\* ------------------------------------------------------------------------
MaxStoreAttempts == 1
MaxCalls == 3

StoreTemplates ==
  { NewJob("a", NoRepeat, NoRetry, 1, DefaultPriority),
    NewJob("a", NoRepeat, NoRetry, 1, 1),
    NewJob("b", NoRepeat, NoRetry, 0, DefaultPriority) }

InitStore ==
  /\ store \in Stores
  /\ jobs \in [StoreJobIds -> StoreTemplates]
  /\ now = 0
  /\ started = [s \in Schedulers |-> FALSE]
  /\ running = [s \in Schedulers |-> FALSE]
  /\ pc = [s \in Schedulers |-> "idle"]
  /\ snap = [s \in Schedulers |-> NoSnap]
  /\ hb = [s \in Schedulers |-> Absent]
  /\ updates = 0
  /\ stats = [on |-> FALSE, runs |-> 0, retries |-> 0, fails |-> 0]
  /\ last = NoCall

\* store.findAndLockNext({now, workerId, lockTimeoutMs}); result 0 is null
StoreFindAndLockNext(w) ==
  /\ last.seq < MaxCalls
  /\ LET c == Candidates(store, jobs, now, LockTimeoutMs) IN
       IF c = {}
       THEN /\ jobs' = jobs
            /\ last' = [op |-> "findAndLockNext", job |-> 0, by |-> w, result |-> 0, seq |-> last.seq + 1]
       ELSE \E i \in c :
              /\ jobs' = LockJob(jobs, i, now, w)
              /\ last' = [op |-> "findAndLockNext", job |-> i, by |-> w, result |-> i, seq |-> last.seq + 1]
  /\ UNCHANGED <<store, now, workerVars>>

\* store.markCompleted(jobId, workerId): the second argument is not read
StoreMarkCompleted(i, w) ==
  /\ last.seq < MaxCalls
  /\ jobs' = MarkCompleted(store, jobs, i)
  /\ last' = [op |-> "markCompleted", job |-> i, by |-> w, result |-> 1, seq |-> last.seq + 1]
  /\ UNCHANGED <<store, now, workerVars>>

\* store.markFailed(jobId, error)
StoreMarkFailed(i) ==
  /\ last.seq < MaxCalls
  /\ jobs' = MarkFailed(store, jobs, i)
  /\ last' = [op |-> "markFailed", job |-> i, by |-> NoWorker, result |-> 1, seq |-> last.seq + 1]
  /\ UNCHANGED <<store, now, workerVars>>

\* store.reschedule(jobId, nextRunAt, {attempts?})
StoreReschedule(i, next, att) ==
  /\ last.seq < MaxCalls
  /\ jobs[i].attempts < MaxStoreAttempts
  /\ jobs' = Reschedule(store, jobs, i, next, att)
  /\ last' = [op |-> "reschedule", job |-> i, by |-> NoWorker, result |-> 1, seq |-> last.seq + 1]
  /\ UNCHANGED <<store, now, workerVars>>

\* store.recoverStaleJobs({now, lockTimeoutMs}); the result is the count
StoreRecoverStaleJobs ==
  /\ last.seq < MaxCalls
  /\ jobs' = RecoverStaleJobs(store, jobs, now, LockTimeoutMs)
  /\ last' = [op |-> "recoverStaleJobs", job |-> 0, by |-> NoWorker,
              result |-> Cardinality(Stale(store, jobs, now, LockTimeoutMs)), seq |-> last.seq + 1]
  /\ UNCHANGED <<store, now, workerVars>>

\* store.cancel(jobId)
StoreCancel(i) ==
  /\ last.seq < MaxCalls
  /\ jobs' = CancelJob(jobs, i)
  /\ last' = [op |-> "cancel", job |-> i, by |-> NoWorker, result |-> 1, seq |-> last.seq + 1]
  /\ UNCHANGED <<store, now, workerVars>>

\* store.renewLock(jobId, workerId); result 0 is the thrown error
StoreRenewLock(i, w) ==
  /\ last.seq < MaxCalls
  /\ IF RenewMatches(jobs, i, w)
     THEN /\ jobs' = RenewLock(jobs, i, now)
          /\ last' = [op |-> "renewLock", job |-> i, by |-> w, result |-> 1, seq |-> last.seq + 1]
     ELSE /\ jobs' = jobs
          /\ last' = [op |-> "renewLock", job |-> i, by |-> w, result |-> 0, seq |-> last.seq + 1]
  /\ UNCHANGED <<store, now, workerVars>>

\* store.update(jobId, {nextRunAt, status: "pending"}), as updateJob calls it
StoreUpdate(i, next) ==
  /\ last.seq < MaxCalls
  /\ jobs' = UpdateSchedule(jobs, i, next, "pending")
  /\ last' = [op |-> "update", job |-> i, by |-> NoWorker, result |-> 1, seq |-> last.seq + 1]
  /\ UNCHANGED <<store, now, workerVars>>

\* The clock advances between two calls
StoreTick ==
  /\ now < MaxTime
  /\ now' = now + 1
  /\ last' = [NoCall EXCEPT !.seq = last.seq]
  /\ UNCHANGED <<store, jobs, workerVars>>

\* The callers of the store operations, and the clock
NextStore ==
  \/ \E w \in WorkerIds : StoreFindAndLockNext(w)
  \/ \E i \in StoreJobIds, w \in WorkerIds : StoreMarkCompleted(i, w)
  \/ \E i \in StoreJobIds : StoreMarkFailed(i)
  \/ \E i \in StoreJobIds : StoreReschedule(i, now + 1, Absent)
  \/ StoreRecoverStaleJobs
  \/ \E i \in StoreJobIds : StoreCancel(i)
  \/ \E i \in StoreJobIds, w \in WorkerIds : StoreRenewLock(i, w)
  \/ \E i \in StoreJobIds : StoreUpdate(i, now)
  \/ StoreTick

SpecStore == InitStore /\ [][NextStore]_vars

\* ------------------------------------------------------------------------
\* Properties
\* ------------------------------------------------------------------------

\* The worker of scheduler s is executing the handler of job i
Executing(s, i) == pc[s] = "handler" /\ snap[s].id = i

\* C1: for every job, at most one handler execution of that job is in
\* progress at any instant, across the workers of all schedulers sharing
\* the store.
C1_AtMostOneExecution ==
  \A i \in DOMAIN jobs :
    Cardinality({s \in Schedulers : Executing(s, i)}) <= 1

\* The findAndLockNext call of the worker of s returns job i in this step
Returned(s, i) == pc[s] = "idle" /\ pc'[s] = "polled" /\ snap'[s].id = i

\* C2: a job is returned as locked to at most one caller: findAndLockNext
\* returns a job only if it was pending (never a job another caller still
\* holds as running), and leaves it running and locked by the caller alone.
C2_LockedToOneCaller ==
  [][\A s \in Schedulers : \A i \in DOMAIN jobs :
       Returned(s, i) =>
         /\ jobs[i].status = "pending"
         /\ jobs'[i].status = "running"
         /\ jobs'[i].lockedBy = WorkerIdOf(s)
         /\ \A t \in Schedulers \ {s} : ~Returned(t, i)]_vars

\* A job was returned to a second caller, after its release, while the first
\* caller still holds its copy
C2_Witness ==
  \E s \in Schedulers : \E t \in Schedulers \ {s} :
    /\ snap[s].id # 0
    /\ snap[s].id = snap[t].id
    /\ pc[s] = "handler"
    /\ pc[t] = "polled"

\* C3: for every job name whose jobs carry the concurrency cap k, the number
\* of jobs of that name with status running is at most k in every state.
C3_ConcurrencyCap ==
  \A i \in DOMAIN jobs :
    jobs[i].concurrency > 0 =>
      RunningCount(jobs, jobs[i].name) <= jobs[i].concurrency

\* This step is a direct call of store operation op on job i
Called(op, i) ==
  /\ last'.seq = last.seq + 1
  /\ last'.op = op
  /\ last'.job = i

\* C4: markCompleted(jobId, workerId) changes the job only when it is running
\* and locked by workerId (it then becomes completed); otherwise the call
\* fails and the record is left unchanged.
C4_MarkCompletedOwnership ==
  [][\A i \in DOMAIN jobs :
       Called("markCompleted", i) =>
         IF jobs[i].status = "running" /\ jobs[i].lockedBy = last'.by
         THEN jobs'[i].status = "completed"
         ELSE jobs'[i] = jobs[i]]_vars

\* C5: a job whose status is not running has no lock fields: lockedBy,
\* lockedAt and lockUntil are all absent.
C5_NotRunningUnlocked ==
  \A i \in DOMAIN jobs :
    jobs[i].status # "running" =>
      /\ jobs[i].lockedBy = NoWorker
      /\ jobs[i].lockedAt = Absent
      /\ jobs[i].lockUntil = Absent

\* C6: a job whose status is running has lockedBy and lockUntil set, with
\* lockedAt <= lockUntil.
C6_RunningLocked ==
  \A i \in DOMAIN jobs :
    jobs[i].status = "running" =>
      /\ jobs[i].lockedBy # NoWorker
      /\ jobs[i].lockUntil # Absent
      /\ jobs[i].lockedAt <= jobs[i].lockUntil

\* C7: the attempts counter of a job never decreases, whichever worker
\* writes it and from whichever snapshot of the job.
C7_AttemptsMonotone ==
  [][\A i \in DOMAIN jobs : jobs'[i].attempts >= jobs[i].attempts]_vars

\* C8: lockVersion never decreases, and strictly increases on every
\* successful findAndLockNext and every successful renewLock.
C8_LockVersionIncreases ==
  [][\A i \in DOMAIN jobs :
       /\ jobs'[i].lockVersion >= jobs[i].lockVersion
       /\ (Called("findAndLockNext", i) \/ (Called("renewLock", i) /\ last'.result = 1))
            => jobs'[i].lockVersion > jobs[i].lockVersion]_vars

\* C9: a non-repeating job with retry {maxAttempts: n} (or the bare number n)
\* whose handler always fails, run by one worker, ends failed after exactly n
\* handler invocations, n-1 job:retry events and one job:fail event, with
\* attempts = n, also across a stop and restart of the scheduler.
C9_RetryExhaustion ==
  \A i \in DOMAIN jobs :
    jobs[i].status = "failed" =>
      LET n == NormalizeRetry(jobs[i].retry).maxAttempts
      IN /\ stats.runs = n
         /\ stats.retries = n - 1
         /\ stats.fails = 1
         /\ jobs[i].attempts = n

Terminal == {"completed", "failed", "cancelled"}

\* C10: completed, failed and cancelled are terminal: the status of a job in
\* one of them changes only by a nextRunAt update that resets it to pending
\* (or by a cancel, which applies in any state), and its handler is not
\* started while the job is terminal.
C10_TerminalStays ==
  [][\A i \in DOMAIN jobs :
       jobs[i].status \in Terminal =>
         /\ jobs'[i].status # jobs[i].status =>
              \/ updates' = updates + 1 /\ jobs'[i].status = "pending"
              \/ jobs'[i].status = "cancelled"
         /\ \A s \in Schedulers :
              (pc[s] # "handler" /\ pc'[s] = "handler") => snap'[s].id # i]_vars

\* Eligibility as the contract of findAndLockNext states it: due, pending
\* without an active lock, and not blocked by the concurrency cap of its name
DueAndFree(js, i, t) ==
  /\ js[i].nextRunAt <= t
  /\ js[i].status = "pending"
  /\ ~LockActive(js[i], t, LockTimeoutMs)
  /\ ~(js[i].concurrency > 0 /\ RunningCount(js, js[i].name) >= js[i].concurrency)

\* Job a is not after job b in the order priority, then nextRunAt
NotAfter(js, a, b) ==
  \/ js[a].priority < js[b].priority
  \/ js[a].priority = js[b].priority /\ js[a].nextRunAt <= js[b].nextRunAt

\* C11: findAndLockNext returns null exactly when no job is eligible;
\* otherwise it returns an eligible job that is smallest by priority and then
\* by nextRunAt (so never a job that is not due or not pending).
C11_ReturnsBestEligible ==
  [][(last'.seq = last.seq + 1 /\ last'.op = "findAndLockNext") =>
       LET el == {i \in DOMAIN jobs : DueAndFree(jobs, i, now)}
       IN /\ last'.result = 0 <=> el = {}
          /\ last'.result # 0 =>
               /\ last'.result \in el
               /\ \A k \in el : NotAfter(jobs, last'.result, k)]_vars

\* The lock of the job has expired at t: lockedAt + lockTimeoutMs <= t
LockExpired(job, t) ==
  job.lockedAt # Absent /\ job.lockedAt + LockTimeoutMs <= t

\* The worker of s calls findAndLockNext in this step
Polls(s) == pc[s] = "idle" /\ pc'[s] = "polled"

\* C12 (as stated): a running job whose lock has expired is eligible for
\* findAndLockNext: a poll made while such a job is due returns a job.
C12_StaleRunningAcquired ==
  [][\A s \in Schedulers :
       (Polls(s) /\ \E i \in DOMAIN jobs :
                      /\ jobs[i].status = "running"
                      /\ jobs[i].nextRunAt <= now
                      /\ LockExpired(jobs[i], now))
         => snap'[s].id # 0]_vars

\* C12 (amended): a running job is never eligible for findAndLockNext,
\* whether its lock has expired or not: a poll leaves it untouched and does
\* not return it; it is acquired again only once it is pending.
C12_RunningNeverAcquired ==
  [][\A s \in Schedulers : \A i \in DOMAIN jobs :
       (Polls(s) /\ jobs[i].status = "running")
         => /\ snap'[s].id # i
            /\ jobs'[i] = jobs[i]]_vars

\* A poll came back empty while the job was running under an expired lock
C12_Witness ==
  \E s \in Schedulers : \E i \in DOMAIN jobs :
    /\ pc[s] = "polled"
    /\ snap[s].id = 0
    /\ jobs[i].status = "running"
    /\ jobs[i].nextRunAt <= now
    /\ LockExpired(jobs[i], now)
    /\ jobs[i].lockedBy # WorkerIdOf(s)

\* ------------------------------------------------------------------------
\* The crash scenario: the process of scheduler A may die while its worker
\* holds a job; the worker of B, once started, is never stopped
\* ------------------------------------------------------------------------

\* The process of scheduler s dies: its worker and heartbeat are gone, the
\* store keeps the job as the worker left it
Crash(s) ==
  /\ pc[s] # "idle"
  /\ snap[s].id # 0
  /\ started' = [started EXCEPT ![s] = FALSE]
  /\ running' = [running EXCEPT ![s] = FALSE]
  /\ pc' = [pc EXCEPT ![s] = "idle"]
  /\ snap' = [snap EXCEPT ![s] = NoSnap]
  /\ hb' = [hb EXCEPT ![s] = Absent]
  /\ UNCHANGED <<store, jobs, now, updates, stats, last>>

NextCrash ==
  \/ \E s \in Schedulers : Start(s)
  \/ \E s \in Schedulers : Poll(s)
  \/ \E s \in Schedulers : AfterPoll(s)
  \/ \E s \in Schedulers : CronPreSchedule(s)
  \/ \E s \in Schedulers : HandlerSucceed(s)
  \/ \E s \in Schedulers : HandlerFail(s)
  \/ \E s \in Schedulers : FailJob(s)
  \/ \E s \in Schedulers : Heartbeat(s)
  \/ Tick
  \/ Crash("A")

\* The live worker keeps running its loop, its timers fire, handlers return
\* and time passes; nobody is obliged to start a scheduler
FairCrash ==
  /\ WF_vars(Poll("B"))
  /\ WF_vars(AfterPoll("B"))
  /\ WF_vars(CronPreSchedule("B"))
  /\ WF_vars(HandlerSucceed("B") \/ HandlerFail("B"))
  /\ WF_vars(FailJob("B"))
  /\ WF_vars(Heartbeat("B"))
  /\ WF_vars(Tick)

SpecCrash == Init /\ [][NextCrash]_vars /\ FairCrash

\* Job i is running under a lock older than the timeout, no worker holds it,
\* and the worker of B is alive
Orphaned(i) ==
  /\ jobs[i].status = "running"
  /\ jobs[i].lockedAt # Absent
  /\ now - jobs[i].lockedAt > LockTimeoutMs
  /\ \A s \in Schedulers : snap[s].id # i
  /\ running["B"]

\* C13: no lock is permanent: once the lock of a crashed worker's running
\* job has timed out, the job eventually returns to pending or is acquired
\* again, as long as a live worker keeps polling.
C13_NoPermanentLock ==
  \A i \in JobIds :
    Orphaned(i) ~> (jobs[i].status # "running" \/ \E s \in Schedulers : snap[s].id = i)

\* ------------------------------------------------------------------------
\* The create scenario: callers insert jobs with and without a dedupeKey,
\* one at a time and in batches, at most MaxCalls times; the collection is
\* the sequence of the stored jobs in insertion order and a job's id is its
\* position
\* ------------------------------------------------------------------------
MaxJobs == 3
MaxBatch == 2

NoKey == "none"
DedupeKeys == {"k1", "k2"}

\* The jobs handed to create: a dedupeKey or none, and a payload
CreateInputs ==
  {[dedupeKey |-> k, data |-> d] : k \in DedupeKeys \cup {NoKey}, d \in {1, 2}}

CreateBatches ==
  UNION {[1..n -> CreateInputs] : n \in 1..MaxBatch}

\* (variant: create inserts without looking for the dedupeKey)
Existing_None(js, key) == {}

\* The stored jobs that carry the dedupeKey
Existing(js, key) ==
  IF key = NoKey THEN {} ELSE {i \in DOMAIN js : js[i].dedupeKey = key}

Min(S) == CHOOSE x \in S : \A y \in S : x <= y

\* create(job): the first stored job with the same dedupeKey is returned as
\* it is; otherwise the job is inserted under a fresh id.
\* The result is the collection and the id of the returned job.
Create(js, job) ==
  IF Existing(js, job.dedupeKey) # {}
  THEN [jobs |-> js, id |-> Min(Existing(js, job.dedupeKey)), hit |-> TRUE]
  ELSE [jobs |-> Append(js, job), id |-> Len(js) + 1, hit |-> FALSE]

\* InMemoryJobStore.createBulk: create for each job of the batch, in order
RECURSIVE MemoryCreateBulk(_, _)
MemoryCreateBulk(js, batch) ==
  IF batch = <<>>
  THEN [jobs |-> js, ok |-> TRUE]
  ELSE MemoryCreateBulk(Create(js, Head(batch)).jobs, Tail(batch))

\* MongoJobStore.createBulk: insertMany inserts in order and stops with a
\* duplicate-key error at the first document that violates the unique
\* sparse index on dedupeKey
RECURSIVE MongoCreateBulk(_, _)
MongoCreateBulk(js, batch) ==
  IF batch = <<>>
  THEN [jobs |-> js, ok |-> TRUE]
  ELSE IF Existing(js, Head(batch).dedupeKey) # {}
  THEN [jobs |-> js, ok |-> FALSE]
  ELSE MongoCreateBulk(Append(js, Head(batch)), Tail(batch))

CreateBulk(st, js, batch) ==
  IF st = "memory" THEN MemoryCreateBulk(js, batch) ELSE MongoCreateBulk(js, batch)

InitCreate ==
  /\ store \in Stores
  /\ jobs = <<>>
  /\ now = 0
  /\ started = [s \in Schedulers |-> FALSE]
  /\ running = [s \in Schedulers |-> FALSE]
  /\ pc = [s \in Schedulers |-> "idle"]
  /\ snap = [s \in Schedulers |-> NoSnap]
  /\ hb = [s \in Schedulers |-> Absent]
  /\ updates = 0
  /\ stats = [on |-> FALSE, runs |-> 0, retries |-> 0, fails |-> 0]
  /\ last = NoCall

\* store.create(job); the record of the call keeps the dedupeKey given, the
\* id returned and whether an existing job was returned
StoreCreate(job) ==
  /\ last.seq < MaxCalls
  /\ Len(jobs) < MaxJobs
  /\ LET r == Create(jobs, job)
     IN /\ jobs' = r.jobs
        /\ last' = [op |-> "create", job |-> r.id, by |-> job.dedupeKey,
                    result |-> IF r.hit THEN 0 ELSE 1, seq |-> last.seq + 1]
  /\ UNCHANGED <<store, now, workerVars>>

\* store.createBulk(jobs); result 0 is the thrown error
StoreCreateBulk(batch) ==
  /\ last.seq < MaxCalls
  /\ Len(jobs) + Len(batch) <= MaxJobs
  /\ LET r == CreateBulk(store, jobs, batch)
     IN /\ jobs' = r.jobs
        /\ last' = [op |-> "createBulk", job |-> 0, by |-> NoKey,
                    result |-> IF r.ok THEN 1 ELSE 0, seq |-> last.seq + 1]
  /\ UNCHANGED <<store, now, workerVars>>

NextCreate ==
  \/ \E job \in CreateInputs : StoreCreate(job)
  \/ \E batch \in CreateBatches : StoreCreateBulk(batch)

SpecCreate == InitCreate /\ [][NextCreate]_vars

\* No two stored jobs share a dedupeKey
UniqueKeys(js) ==
  \A i, k \in DOMAIN js :
    (i # k /\ js[i].dedupeKey # NoKey) => js[i].dedupeKey # js[k].dedupeKey

\* C14: after any sequence of create and createBulk calls no two stored jobs
\* share a dedupeKey, and a create whose dedupeKey already exists returns the
\* existing job, with its id, and leaves the collection unchanged.
C14_DedupeKeyUnique ==
  [][/\ UniqueKeys(jobs')
     /\ \A i \in DOMAIN jobs :
          (last'.op = "create" /\ last'.by # NoKey /\ last'.by = jobs[i].dedupeKey)
            => /\ last'.job = i
               /\ jobs' = jobs]_vars

\* A create with a dedupeKey that exists returned the stored job, and a batch
\* was inserted as well
C14_Witness ==
  /\ last.op = "create"
  /\ last.result = 0
  /\ last.job \in DOMAIN jobs
  /\ jobs[last.job].dedupeKey = last.by
  /\ Len(jobs) >= 2

\* C15: recoverStaleJobs is idempotent: in every store state, a second run
\* with the same now and lockTimeoutMs right after a first one finds no stale
\* job (it returns 0) and changes nothing.
C15_RecoverIdempotent ==
  LET once == RecoverStaleJobs(store, jobs, now, LockTimeoutMs)
  IN /\ Cardinality(Stale(store, once, now, LockTimeoutMs)) = 0
     /\ RecoverStaleJobs(store, once, now, LockTimeoutMs) = once

\* A run of recoverStaleJobs has just reset at least one job
C15_Witness ==
  /\ last.op = "recoverStaleJobs"
  /\ last.result > 0
  /\ \E i \in DOMAIN jobs : jobs[i].status = "pending" /\ jobs[i].lockedAt = Absent

\* C16: recoverStaleJobs changes exactly the running jobs whose lock has
\* expired: each becomes pending with its lock fields cleared and everything
\* else (nextRunAt, attempts) preserved; every other job is left unchanged;
\* the returned count is the number of jobs changed.
C16_RecoverFrame ==
  [][(last'.seq = last.seq + 1 /\ last'.op = "recoverStaleJobs") =>
       LET ex == {i \in DOMAIN jobs :
                    jobs[i].status = "running" /\ LockExpired(jobs[i], now)}
       IN /\ \A i \in ex :
               jobs'[i] = [jobs[i] EXCEPT !.status = "pending",
                                          !.lockedAt = Absent,
                                          !.lockedBy = NoWorker]
          /\ \A i \in DOMAIN jobs \ ex : jobs'[i] = jobs[i]
          /\ last'.result = Cardinality(ex)]_vars

\* C17: renewLock(jobId, workerId) succeeds only when the job is running and
\* locked by workerId; it then sets lockedAt to now and lockUntil to now plus
\* the timeout and changes nothing else; otherwise it fails and leaves the
\* record unchanged.
C17_RenewLockContract ==
  [][\A i \in DOMAIN jobs :
       Called("renewLock", i) =>
         IF jobs[i].status = "running" /\ jobs[i].lockedBy = last'.by
         THEN /\ last'.result = 1
              /\ jobs' = [jobs EXCEPT ![i] =
                            [@ EXCEPT !.lockedAt = now,
                                      !.lockUntil = now + LockTimeoutMs]]
         ELSE /\ last'.result = 0
              /\ jobs' = jobs]_vars

\* The worker of s persists the next cron slot and invokes the handler
CronPersisted(s) == pc[s] = "cron" /\ pc'[s] = "handler"

\* C18: for a cron job acquired at time now (snap.at), the worker persists,
\* before the handler is invoked, a next slot strictly greater than now, so
\* that no missed slot stays scheduled: the handler of a cron job is entered
\* only through the pre-scheduling step, and that step leaves the record
\* pending at a slot of the expression that lies after now.
C18_CronNextSlotAfterNow ==
  [][\A s \in Schedulers :
       /\ (pc[s] # "handler" /\ pc'[s] = "handler" /\ snap'[s].repeat.cron # 0)
            => CronPersisted(s)
       /\ CronPersisted(s) =>
            LET j == jobs'[snap[s].id]
            IN /\ j.nextRunAt > snap[s].at
               /\ j.nextRunAt % snap[s].repeat.cron = 0
               /\ j.status = "pending"]_vars

\* A cron job resumed after a slot was missed: its handler runs once and the
\* stored next slot lies beyond both the missed slot and the time of resume
C18_Witness ==
  \E s \in Schedulers :
    /\ pc[s] = "handler"
    /\ snap[s].repeat.cron # 0
    /\ snap[s].nextRunAt + snap[s].repeat.cron <= snap[s].at
    /\ jobs[snap[s].id].nextRunAt > snap[s].at
    /\ jobs[snap[s].id].nextRunAt > snap[s].nextRunAt + snap[s].repeat.cron

\* ------------------------------------------------------------------------
\* The worker on a store whose markCompleted verifies ownership
\* ------------------------------------------------------------------------

\* markCompleted(jobId, workerId) completes the job only when it is running
\* and locked by workerId, and rejects with an ownership error otherwise
Owns(js, i, w) == js[i].status = "running" /\ js[i].lockedBy = w

\* execute(): the handler returns; for a job without repeat markCompleted is
\* awaited inside the try block, and its rejection is thrown there
HandlerSucceedVerified(s) ==
  /\ pc[s] = "handler"
  /\ IF snap[s].repeat = NoRepeat /\ ~Owns(jobs, snap[s].id, WorkerIdOf(s))
     THEN /\ jobs' = jobs
          /\ pc' = [pc EXCEPT ![s] = "rejected"]
          /\ snap' = snap
          /\ hb' = hb
     ELSE /\ jobs' = FinishSuccess(store, jobs, snap[s], now)
          /\ pc' = [pc EXCEPT ![s] = "idle"]
          /\ snap' = [snap EXCEPT ![s] = NoSnap]
          /\ hb' = [hb EXCEPT ![s] = Absent]
  /\ UNCHANGED <<store, now, started, running, updates, stats, last>>

\* execute(): the catch block after markCompleted was rejected; it is the
\* block that handles a throwing handler
CatchRejection(s) ==
  /\ pc[s] = "rejected"
  /\ LET job == snap[s]
         attempts == job.attempts + 1
         retry == NormalizeRetry(job.retry)
     IN IF ShouldRetry(retry, attempts)
        THEN /\ jobs' = Reschedule(store, jobs, job.id,
                                   now + GetRetryDelay(retry, attempts), attempts)
             /\ pc' = [pc EXCEPT ![s] = "idle"]
             /\ snap' = [snap EXCEPT ![s] = NoSnap]
             /\ hb' = [hb EXCEPT ![s] = Absent]
             /\ stats' = Count(stats, "retries")
        ELSE /\ jobs' = UpdateAttempts(store, jobs, job.id, attempts)
             /\ pc' = [pc EXCEPT ![s] = "failing"]
             /\ snap' = snap
             /\ hb' = hb
             /\ stats' = stats
  /\ UNCHANGED <<store, now, started, running, updates, last>>

NextVerified ==
  \/ \E s \in Schedulers : Start(s)
  \/ \E s \in Schedulers : Stop(s)
  \/ \E s \in Schedulers : Poll(s)
  \/ \E s \in Schedulers : AfterPoll(s)
  \/ \E s \in Schedulers : CronPreSchedule(s)
  \/ \E s \in Schedulers : HandlerSucceedVerified(s)
  \/ \E s \in Schedulers : CatchRejection(s)
  \/ \E s \in Schedulers : HandlerFail(s)
  \/ \E s \in Schedulers : FailJob(s)
  \/ \E s \in Schedulers : Heartbeat(s)
  \/ Tick

SpecVerified == Init /\ [][NextVerified]_vars

\* C19: when the worker's markCompleted is rejected because it no longer
\* owns the job, the worker makes no further write on the job: the step it
\* takes after the rejection leaves the job collection as it is, and the
\* worker returns to its poll loop.
C19_NoWriteAfterRejection ==
  [][\A s \in Schedulers :
       (pc[s] = "rejected" /\ pc'[s] # "rejected") =>
         /\ jobs' = jobs
         /\ pc'[s] = "idle"]_vars

\* ------------------------------------------------------------------------
\* The worker on a store whose calls may fail
\* ------------------------------------------------------------------------

\* Worker.loop: findAndLockNext rejects. loop() has no try around the call,
\* so the loop promise rejects, the catch attached in start() emits
\* worker:error, and the loop is over while Worker.running stays set
PollFails(s) ==
  /\ pc[s] = "idle"
  /\ running[s]
  /\ pc' = [pc EXCEPT ![s] = "ended"]
  /\ UNCHANGED <<store, jobs, now, started, running, snap, hb, updates, stats, last>>

\* execute(): the handler has thrown and a store call of the catch block
\* (reschedule, update or markFailed) rejects. The finally block stops the
\* heartbeat, the error leaves execute() and ends loop() as above
FinalizeFails(s) ==
  /\ pc[s] \in {"handler", "failing"}
  /\ pc' = [pc EXCEPT ![s] = "ended"]
  /\ snap' = [snap EXCEPT ![s] = NoSnap]
  /\ hb' = [hb EXCEPT ![s] = Absent]
  /\ UNCHANGED <<store, jobs, now, started, running, updates, stats, last>>

\* Scheduler.start() after a stop(): the workers are created anew
Restart(s) ==
  /\ ~started[s]
  /\ pc[s] = "ended"
  /\ started' = [started EXCEPT ![s] = TRUE]
  /\ jobs' = RecoverStaleJobs(store, jobs, now, LockTimeoutMs)
  /\ running' = [running EXCEPT ![s] = TRUE]
  /\ pc' = [pc EXCEPT ![s] = "idle"]
  /\ UNCHANGED <<store, now, snap, hb, updates, stats, last>>

NextFailing ==
  \/ NextCore
  \/ \E s \in Schedulers : PollFails(s)
  \/ \E s \in Schedulers : FinalizeFails(s)
  \/ \E s \in Schedulers : Restart(s)

SpecFailing == Init /\ [][NextFailing]_vars

\* C20: a failing store call on the data path (findAndLockNext in the poll
\* loop, or a finalising reschedule / update / markFailed after the handler)
\* is never fatal to the worker: as long as the worker has not been stopped
\* its poll loop has not ended.
C20_StoreFailureNotFatal ==
  \A s \in Schedulers : running[s] => pc[s] # "ended"

\* ------------------------------------------------------------------------
\* Lifecycle calls and event listeners
\* ------------------------------------------------------------------------

\* No lifecycle call or execution was recorded yet. result counts the
\* emissions of the operation's own event, errors those of scheduler:error;
\* threw tells that a listener of the event threw, rejected that the
\* exception left emitSafe
NoEmit ==
  [op |-> "none", job |-> 0, by |-> NoWorker, result |-> 0, seq |-> 0,
   errors |-> 0, threw |-> FALSE, rejected |-> FALSE]

\* (variant: the event is emitted without a guard)
EmitSafe_Unguarded(throws, errThrows) ==
  [errors |-> 0, rejected |-> throws]

\* SchedulerEmitter.emitSafe: emitUnsafe(event) inside try; a throwing
\* listener leads to emitUnsafe("scheduler:error") inside a second try, whose
\* catch is empty
EmitSafe(throws, errThrows) ==
  IF ~throws
  THEN [errors |-> 0, rejected |-> FALSE]
  ELSE IF ~errThrows
  THEN [errors |-> 1, rejected |-> FALSE]
  ELSE [errors |-> 1, rejected |-> FALSE]

\* (variant: start() does not look at the started flag)
AlreadyStarted_Ignored(s) == FALSE

\* if (this.started) return;
AlreadyStarted(s) == started[s]

\* Scheduler.start(), called at any time: a started scheduler returns at
\* once; otherwise started is set, scheduler:start is emitted,
\* recoverStaleJobs runs and the worker is created and started
CallStart(s, throws, errThrows) ==
  /\ last.seq < MaxCalls
  /\ started[s] \/ pc[s] = "idle"
  /\ IF AlreadyStarted(s)
     THEN /\ UNCHANGED <<started, jobs, running>>
          /\ last' = [NoEmit EXCEPT !.op = "start", !.by = s,
                                    !.seq = last.seq + 1]
     ELSE LET e == EmitSafe(throws, errThrows)
          IN /\ started' = [started EXCEPT ![s] = TRUE]
             /\ IF e.rejected
                THEN UNCHANGED <<jobs, running>>
                ELSE /\ jobs' = RecoverStaleJobs(store, jobs, now, LockTimeoutMs)
                     /\ running' = [running EXCEPT ![s] = TRUE]
             /\ last' = [op |-> "start", job |-> 0, by |-> s, result |-> 1,
                         seq |-> last.seq + 1, errors |-> e.errors,
                         threw |-> throws, rejected |-> e.rejected]
  /\ UNCHANGED <<store, now, pc, snap, hb, updates, stats>>

\* Scheduler.stop(), called at any time: a scheduler that is not started
\* returns at once; otherwise started is cleared, the workers are stopped
\* and scheduler:stop is emitted
CallStop(s, throws, errThrows) ==
  /\ last.seq < MaxCalls
  /\ IF ~started[s]
     THEN /\ UNCHANGED <<started, running>>
          /\ last' = [NoEmit EXCEPT !.op = "stop", !.by = s,
                                    !.seq = last.seq + 1]
     ELSE LET e == EmitSafe(throws, errThrows)
          IN /\ started' = [started EXCEPT ![s] = FALSE]
             /\ running' = [running EXCEPT ![s] = FALSE]
             /\ last' = [op |-> "stop", job |-> 0, by |-> s, result |-> 1,
                         seq |-> last.seq + 1, errors |-> e.errors,
                         threw |-> throws, rejected |-> e.rejected]
  /\ UNCHANGED <<store, jobs, now, pc, snap, hb, updates, stats>>

\* execute(): the handler returns, the job is finalised and job:complete is
\* emitted inside the try block; an exception leaving emitSafe there would
\* enter the catch block
HandlerSucceedEmit(s, throws, errThrows) ==
  /\ last.seq < MaxCalls
  /\ pc[s] = "handler"
  /\ LET e == EmitSafe(throws, errThrows)
         done == FinishSuccess(store, jobs, snap[s], now)
     IN /\ IF e.rejected
           THEN /\ jobs' = UpdateAttempts(store, done, snap[s].id,
                                          snap[s].attempts + 1)
                /\ pc' = [pc EXCEPT ![s] = "failing"]
                /\ UNCHANGED <<snap, hb>>
           ELSE /\ jobs' = done
                /\ pc' = [pc EXCEPT ![s] = "idle"]
                /\ snap' = [snap EXCEPT ![s] = NoSnap]
                /\ hb' = [hb EXCEPT ![s] = Absent]
        /\ last' = [op |-> "execute", job |-> snap[s].id, by |-> s,
                    result |-> 1, seq |-> last.seq + 1, errors |-> e.errors,
                    threw |-> throws, rejected |-> e.rejected]
  /\ UNCHANGED <<store, now, started, running, updates, stats>>

\* The jobs of the scenario: a one-shot job and a cron job
EventTemplates ==
  { NewJob("a", NoRepeat, NoRetry, 1, DefaultPriority),
    NewJob("b", [cron |-> CronPeriod, every |-> Absent], NoRetry, 0, 1) }

InitEvents ==
  /\ store \in Stores
  /\ jobs \in [JobIds -> EventTemplates]
  /\ now = 0
  /\ started = [s \in Schedulers |-> FALSE]
  /\ running = [s \in Schedulers |-> FALSE]
  /\ pc = [s \in Schedulers |-> "idle"]
  /\ snap = [s \in Schedulers |-> NoSnap]
  /\ hb = [s \in Schedulers |-> Absent]
  /\ updates = 0
  /\ stats = [on |-> FALSE, runs |-> 0, retries |-> 0, fails |-> 0]
  /\ last = NoEmit

NextEvents ==
  \/ \E s \in Schedulers : \E throws, errThrows \in BOOLEAN :
       CallStart(s, throws, errThrows)
  \/ \E s \in Schedulers : \E throws, errThrows \in BOOLEAN :
       CallStop(s, throws, errThrows)
  \/ \E s \in Schedulers : Poll(s)
  \/ \E s \in Schedulers : AfterPoll(s)
  \/ \E s \in Schedulers : CronPreSchedule(s)
  \/ \E s \in Schedulers : \E throws, errThrows \in BOOLEAN :
       HandlerSucceedEmit(s, throws, errThrows)
  \/ \E s \in Schedulers : HandlerFail(s)
  \/ \E s \in Schedulers : FailJob(s)
  \/ \E s \in Schedulers : Heartbeat(s)
  \/ Tick

SpecEvents == InitEvents /\ [][NextEvents]_vars

\* An emitting operation has just been performed
Emitted(op) == last'.seq = last.seq + 1 /\ last'.op = op /\ last'.result = 1

\* C21: an exception thrown by an event listener never propagates into the
\* core: the emitting operation (start, stop, job execution) is not rejected,
\* makes the state transitions it makes when no listener throws, and the
\* error is emitted once as scheduler:error.
C21_ListenerErrorContained ==
  [][\A s \in Schedulers :
       (last'.seq = last.seq + 1 /\ last'.by = s) =>
         /\ ~last'.rejected
         /\ last'.errors = (IF last'.threw THEN 1 ELSE 0)
         /\ Emitted("start") =>
              /\ started'[s] /\ running'[s]
              /\ jobs' = RecoverStaleJobs(store, jobs, now, LockTimeoutMs)
         /\ Emitted("stop") => ~started'[s] /\ ~running'[s]
         /\ Emitted("execute") =>
              /\ jobs' = FinishSuccess(store, jobs, snap[s], now)
              /\ pc'[s] = "idle"]_vars

\* A listener of job:complete has thrown, the job is completed all the same
C21_Witness ==
  /\ last.op = "execute"
  /\ last.threw
  /\ last.errors = 1
  /\ jobs[last.job].status = "completed"
  /\ pc[last.by] = "idle"

\* C22: start() and stop() are idempotent: start() on a started scheduler
\* emits nothing, runs no recovery and creates no worker, and on a stopped
\* one it emits scheduler:start once, runs recoverStaleJobs and starts the
\* worker; stop() on a scheduler that is not started (also before any
\* start()) emits nothing and changes nothing, and on a started one it emits
\* scheduler:stop once and stops the worker.
C22_StartStopIdempotent ==
  [][\A s \in Schedulers :
       (last'.seq = last.seq + 1 /\ last'.by = s) =>
         /\ last'.op = "start" =>
              IF started[s]
              THEN /\ last'.result = 0
                   /\ UNCHANGED <<started, running, jobs>>
              ELSE /\ last'.result = 1
                   /\ started'[s] /\ running'[s]
                   /\ jobs' = RecoverStaleJobs(store, jobs, now, LockTimeoutMs)
         /\ last'.op = "stop" =>
              IF started[s]
              THEN /\ last'.result = 1
                   /\ ~started'[s] /\ ~running'[s]
              ELSE /\ last'.result = 0
                   /\ UNCHANGED <<started, running, jobs>>]_vars

\* start() was called again on a started scheduler while a job held a lock
\* that recoverStaleJobs would have reset, and left it alone
C22_Witness ==
  /\ last.op = "start"
  /\ last.result = 0
  /\ started[last.by]
  /\ Stale(store, jobs, now, LockTimeoutMs) # {}

\* ------------------------------------------------------------------------
\* Graceful stop
\* ------------------------------------------------------------------------

\* The timeouts passed to stop({graceful: true, timeoutMs}), in ticks
StopTimeouts == {1, 2}

\* No stop({graceful: true}) is in flight. For a call in flight op is
\* "stopping" and deadline the instant its timeout fires; once it has
\* resolved op is "stopped" and result tells how: 1 the loop promise
\* resolved, 2 the timeout won the race
NoStop ==
  [op |-> "none", job |-> 0, by |-> NoWorker, result |-> 0, seq |-> 0,
   deadline |-> Absent]

\* The loop promise of the worker has resolved: the worker is not inside
\* execute() and, stopped, leaves the while loop
LoopEnded(s) == pc[s] = "idle" /\ ~running[s]

\* Scheduler.stop({graceful: true, timeoutMs}) up to the await: started is
\* cleared, Worker.stop clears running and starts the race between the loop
\* promise and the timeout
GracefulStop(s, timeoutMs) ==
  /\ last.seq < MaxCalls
  /\ last.op # "stopping"
  /\ started[s]
  /\ started' = [started EXCEPT ![s] = FALSE]
  /\ running' = [running EXCEPT ![s] = FALSE]
  /\ last' = [op |-> "stopping", job |-> 0, by |-> s, result |-> 0,
              seq |-> last.seq + 1, deadline |-> now + timeoutMs]
  /\ UNCHANGED <<store, jobs, now, pc, snap, hb, updates, stats>>

\* Promise.race([loopPromise, timeout]) settles: stop() resolves, without an
\* error also when the timeout has won
StopResolves(s) ==
  /\ last.op = "stopping"
  /\ last.by = s
  /\ \/ /\ LoopEnded(s)
        /\ last' = [last EXCEPT !.op = "stopped", !.result = 1]
     \/ /\ now >= last.deadline
        /\ last' = [last EXCEPT !.op = "stopped", !.result = 2]
  /\ UNCHANGED <<store, jobs, now, started, running, pc, snap, hb, updates, stats>>

InitGraceful ==
  /\ store \in Stores
  /\ jobs \in [JobIds -> Templates]
  /\ now = 0
  /\ started = [s \in Schedulers |-> FALSE]
  /\ running = [s \in Schedulers |-> FALSE]
  /\ pc = [s \in Schedulers |-> "idle"]
  /\ snap = [s \in Schedulers |-> NoSnap]
  /\ hb = [s \in Schedulers |-> Absent]
  /\ updates = 0
  /\ stats = [on |-> FALSE, runs |-> 0, retries |-> 0, fails |-> 0]
  /\ last = NoStop

NextGraceful ==
  \/ \E s \in Schedulers : Start(s)
  \/ \E s \in Schedulers : \E timeoutMs \in StopTimeouts : GracefulStop(s, timeoutMs)
  \/ \E s \in Schedulers : StopResolves(s)
  \/ \E s \in Schedulers : Poll(s)
  \/ \E s \in Schedulers : AfterPoll(s)
  \/ \E s \in Schedulers : CronPreSchedule(s)
  \/ \E s \in Schedulers : HandlerSucceed(s)
  \/ \E s \in Schedulers : HandlerFail(s)
  \/ \E s \in Schedulers : FailJob(s)
  \/ \E s \in Schedulers : Heartbeat(s)
  \/ Tick

SpecGraceful == InitGraceful /\ [][NextGraceful]_vars

\* stop({graceful: true}) of s resolves in this step
Resolves(s) == last.op = "stopping" /\ last.by = s /\ last'.op = "stopped"

\* The worker of s, left behind by a stop that timed out, completes its job
\* in this step
OrphanCompletes(s) ==
  /\ last.op = "stopped" /\ last.by = s /\ last.result = 2
  /\ pc[s] = "handler" /\ pc'[s] = "idle"
  /\ jobs[snap[s].id].status # "completed"
  /\ jobs'[snap[s].id].status = "completed"

StopRequested_Never(s) == FALSE

\* while (this.running) / if (!this.running) break;
StopRequested(s) == ~running[s]

\* Worker.loop: findAndLockNext is called; the store has not run it yet
\* (mutex.acquire of the memory store, the round trip of the Mongo store)
PollCall(s) ==
  /\ pc[s] = "idle"
  /\ ~StopRequested(s)
  /\ pc' = [pc EXCEPT ![s] = "polling"]
  /\ UNCHANGED <<store, jobs, now, started, running, snap, hb, updates, stats, last>>

\* The store runs the findAndLockNext that is in flight and returns
PollReturn(s) ==
  /\ pc[s] = "polling"
  /\ pc' = [pc EXCEPT ![s] = "polled"]
  /\ LET c == Candidates(store, jobs, now, LockTimeoutMs) IN
       IF c = {}
       THEN /\ snap' = [snap EXCEPT ![s] = NoSnap]
            /\ jobs' = jobs
       ELSE \E i \in c :
              /\ jobs' = LockJob(jobs, i, now, WorkerIdOf(s))
              /\ snap' = [snap EXCEPT ![s] = Snapshot(i, jobs'[i], now)]
  /\ UNCHANGED <<store, now, started, running, hb, updates, stats, last>>

NextStopping ==
  \/ \E s \in Schedulers : Start(s)
  \/ \E s \in Schedulers : Stop(s)
  \/ \E s \in Schedulers : PollCall(s)
  \/ \E s \in Schedulers : PollReturn(s)
  \/ \E s \in Schedulers : AfterPoll(s)
  \/ \E s \in Schedulers : CronPreSchedule(s)
  \/ \E s \in Schedulers : HandlerSucceed(s)
  \/ \E s \in Schedulers : HandlerFail(s)
  \/ \E s \in Schedulers : FailJob(s)
  \/ \E s \in Schedulers : Heartbeat(s)
  \/ Tick

SpecStopping == Init /\ [][NextStopping]_vars

\* The worker of s locks a job in this step
Acquires(s) ==
  \E i \in JobIds :
    /\ jobs'[i].status = "running" /\ jobs'[i].lockedBy = WorkerIdOf(s)
    /\ jobs[i].status # "running"

\* The worker of s enters execute() up to the handler in this step
StartsHandler(s) == pc[s] = "polled" /\ pc'[s] \in {"cron", "handler"}

UpdateStatus(js, i, status) == [js EXCEPT ![i] = [@ EXCEPT !.status = status]]

\* Scheduler.updateJob(jobId, {status}): without nextRunAt the updates are
\* passed to store.update as they are
UpdateJobStatus(i, status) ==
  /\ updates < MaxUpdates
  /\ updates' = updates + 1
  /\ jobs' = UpdateStatus(jobs, i, status)
  /\ UNCHANGED <<store, now, started, running, pc, snap, hb, stats, last>>

\* update(jobId, {repeat, nextRunAt, status})
UpdateRepeat(js, i, repeat, next, status) ==
  [js EXCEPT ![i] = [@ EXCEPT !.repeat = repeat, !.nextRunAt = next,
                             !.status = status]]

\* Scheduler.updateJob(jobId, {repeat, nextRunAt}): nextRunAt is required
\* with repeat and resets the status to pending
UpdateJobRepeat(i, repeat, next) ==
  /\ updates < MaxUpdates
  /\ updates' = updates + 1
  /\ jobs' = UpdateRepeat(jobs, i, repeat, next, "pending")
  /\ UNCHANGED <<store, now, started, running, pc, snap, hb, stats, last>>

NextUpdating ==
  \/ Next
  \/ \E i \in JobIds : \E status \in {"running", "completed"} :
       UpdateJobStatus(i, status)
  \/ \E i \in JobIds : UpdateJobRepeat(i, [cron |-> 0, every |-> 1], now + 1)

SpecUpdating == Init /\ [][NextUpdating]_vars

\* C25: a job's status becomes running exclusively through findAndLockNext,
\* and no updateJob call sets the status (other than the reset to pending
\* that comes with a nextRunAt) or touches the lock fields.
C25_RunningOnlyByLocking ==
  [][\A i \in JobIds :
       /\ (jobs[i].status # "running" /\ jobs'[i].status = "running") =>
            \E s \in Schedulers :
              /\ Polls(s)
              /\ jobs'[i].lockedBy = WorkerIdOf(s)
       /\ updates' # updates =>
            /\ jobs'[i].status \in {jobs[i].status, "pending"}
            /\ jobs'[i].lockedBy = jobs[i].lockedBy
            /\ jobs'[i].lockedAt = jobs[i].lockedAt]_vars

\* C26: updateJob with a nextRunAt leaves the job pending with the new
\* nextRunAt whatever its previous status (pending, completed, failed or
\* cancelled), and the job is eligible again once nextRunAt <= now.
C26_UpdateMakesEligible ==
  [][\A i \in JobIds :
       (updates' = updates + 1
        /\ jobs[i].status \in {"pending", "completed", "failed", "cancelled"}) =>
         /\ jobs'[i].status = "pending"
         /\ jobs'[i].nextRunAt \in {now, now + 1}
         /\ jobs'[i].nextRunAt <= now =>
              i \in Candidates(store, jobs', now, LockTimeoutMs)]_vars

\* C27: a job that has a repeat configuration never reaches status
\* completed.
C27_RepeatNeverCompleted ==
  \A i \in JobIds : jobs[i].repeat # NoRepeat => jobs[i].status # "completed"

\* ------------------------------------------------------------------------
\* Retry of a repeating job: one scheduler with one worker, a job with
\* repeat (cron or every) and retry, a handler that may fail
\* ------------------------------------------------------------------------
RepeatRetryTemplates ==
  {NewJob("b", rep, [maxAttempts |-> n, delay |-> 1], 0, DefaultPriority) :
     rep \in {[cron |-> CronPeriod, every |-> Absent], [cron |-> 0, every |-> 1]},
     n \in 2..MaxRetryAttempts}

InitRepeatRetry ==
  /\ store \in Stores
  /\ jobs \in [JobIds -> RepeatRetryTemplates]
  /\ now = 0
  /\ started = [s \in Schedulers |-> FALSE]
  /\ running = [s \in Schedulers |-> FALSE]
  /\ pc = [s \in Schedulers |-> "idle"]
  /\ snap = [s \in Schedulers |-> NoSnap]
  /\ hb = [s \in Schedulers |-> Absent]
  /\ updates = 0
  /\ stats = [on |-> TRUE, runs |-> 0, retries |-> 0, fails |-> 0]
  /\ last = NoCall

NextRepeatRetry ==
  \/ Start("A")
  \/ Poll("A")
  \/ AfterPoll("A")
  \/ CronPreSchedule("A")
  \/ HandlerSucceed("A")
  \/ HandlerFail("A")
  \/ FailJob("A")
  \/ Heartbeat("A")
  \/ Tick

\* The worker's loop keeps running, the handler returns or throws, the
\* clock advances
FairRepeatRetry ==
  /\ WF_vars(Poll("A"))
  /\ WF_vars(AfterPoll("A"))
  /\ WF_vars(CronPreSchedule("A"))
  /\ WF_vars(HandlerSucceed("A") \/ HandlerFail("A"))
  /\ WF_vars(FailJob("A"))
  /\ WF_vars(Tick)

SpecRepeatRetry == InitRepeatRetry /\ [][NextRepeatRetry]_vars /\ FairRepeatRetry

\* The handler of s throws in this step and a retry is left
FailsWithRetryLeft(s) ==
  /\ pc[s] = "handler" /\ pc'[s] = "idle"
  /\ stats'.retries = stats.retries + 1

\* The handler of s returns in this step, in a run that was a retry
RetrySucceeds(s) ==
  /\ pc[s] = "handler" /\ pc'[s] = "idle"
  /\ stats'.retries = stats.retries
  /\ snap[s].attempts >= 1

\* A retry of job i is stored and the worker is back in its loop
RetryScheduled(i) ==
  /\ running["A"] /\ pc["A"] = "idle"
  /\ jobs[i].status = "pending"
  /\ jobs[i].attempts >= 1
  /\ jobs[i].nextRunAt <= MaxTime

NoPairCall ==
  [op |-> "none", job |-> 0, by |-> NoWorker,
   result |-> [st \in Stores |-> 0], seq |-> 0]

PairCall(op, i, w, res) ==
  [op |-> op, job |-> i, by |-> w, result |-> res, seq |-> last.seq + 1]

InitPair ==
  /\ store = "both"
  /\ \E js \in [StoreJobIds -> StoreTemplates] : jobs = [st \in Stores |-> js]
  /\ now = 0
  /\ started = [s \in Schedulers |-> FALSE]
  /\ running = [s \in Schedulers |-> FALSE]
  /\ pc = [s \in Schedulers |-> "idle"]
  /\ snap = [s \in Schedulers |-> NoSnap]
  /\ hb = [s \in Schedulers |-> Absent]
  /\ updates = 0
  /\ stats = [on |-> FALSE, runs |-> 0, retries |-> 0, fails |-> 0]
  /\ last = NoPairCall

\* The jobs findAndLockNext may return on store st; 0 stands for null
PairPick(st) ==
  LET c == Candidates(st, jobs[st], now, LockTimeoutMs)
  IN IF c = {} THEN {0} ELSE c

PairFindAndLockNext(w) ==
  /\ last.seq < MaxCalls
  /\ \E pick \in [Stores -> StoreJobIds \cup {0}] :
       /\ \A st \in Stores : pick[st] \in PairPick(st)
       /\ jobs' = [st \in Stores |->
                     IF pick[st] = 0 THEN jobs[st]
                     ELSE LockJob(jobs[st], pick[st], now, w)]
       /\ last' = PairCall("findAndLockNext", 0, w, pick)
  /\ UNCHANGED <<store, now, workerVars>>

PairMarkCompleted(i, w) ==
  /\ last.seq < MaxCalls
  /\ jobs' = [st \in Stores |-> MarkCompleted(st, jobs[st], i)]
  /\ last' = PairCall("markCompleted", i, w, [st \in Stores |-> 1])
  /\ UNCHANGED <<store, now, workerVars>>

PairMarkFailed(i) ==
  /\ last.seq < MaxCalls
  /\ jobs' = [st \in Stores |-> MarkFailed(st, jobs[st], i)]
  /\ last' = PairCall("markFailed", i, NoWorker, [st \in Stores |-> 1])
  /\ UNCHANGED <<store, now, workerVars>>

PairReschedule(i, next, att) ==
  /\ last.seq < MaxCalls
  /\ \A st \in Stores : jobs[st][i].attempts < MaxStoreAttempts
  /\ jobs' = [st \in Stores |-> Reschedule(st, jobs[st], i, next, att)]
  /\ last' = PairCall("reschedule", i, NoWorker, [st \in Stores |-> 1])
  /\ UNCHANGED <<store, now, workerVars>>

PairRecoverStaleJobs ==
  /\ last.seq < MaxCalls
  /\ jobs' = [st \in Stores |-> RecoverStaleJobs(st, jobs[st], now, LockTimeoutMs)]
  /\ last' = PairCall("recoverStaleJobs", 0, NoWorker,
                      [st \in Stores |->
                         Cardinality(Stale(st, jobs[st], now, LockTimeoutMs))])
  /\ UNCHANGED <<store, now, workerVars>>

PairCancel(i) ==
  /\ last.seq < MaxCalls
  /\ jobs' = [st \in Stores |-> CancelJob(jobs[st], i)]
  /\ last' = PairCall("cancel", i, NoWorker, [st \in Stores |-> 1])
  /\ UNCHANGED <<store, now, workerVars>>

PairRenewLock(i, w) ==
  /\ last.seq < MaxCalls
  /\ jobs' = [st \in Stores |->
                IF RenewMatches(jobs[st], i, w)
                THEN RenewLock(jobs[st], i, now) ELSE jobs[st]]
  /\ last' = PairCall("renewLock", i, w,
                      [st \in Stores |->
                         IF RenewMatches(jobs[st], i, w) THEN 1 ELSE 0])
  /\ UNCHANGED <<store, now, workerVars>>

PairUpdate(i, next) ==
  /\ last.seq < MaxCalls
  /\ jobs' = [st \in Stores |-> UpdateSchedule(jobs[st], i, next, "pending")]
  /\ last' = PairCall("update", i, NoWorker, [st \in Stores |-> 1])
  /\ UNCHANGED <<store, now, workerVars>>

PairTick ==
  /\ now < MaxTime
  /\ now' = now + 1
  /\ last' = [NoPairCall EXCEPT !.seq = last.seq]
  /\ UNCHANGED <<store, jobs, workerVars>>

NextPair ==
  \/ \E w \in WorkerIds : PairFindAndLockNext(w)
  \/ \E i \in StoreJobIds, w \in WorkerIds : PairMarkCompleted(i, w)
  \/ \E i \in StoreJobIds : PairMarkFailed(i)
  \/ \E i \in StoreJobIds : PairReschedule(i, now + 1, Absent)
  \/ PairRecoverStaleJobs
  \/ \E i \in StoreJobIds : PairCancel(i)
  \/ \E i \in StoreJobIds, w \in WorkerIds : PairRenewLock(i, w)
  \/ \E i \in StoreJobIds : PairUpdate(i, now)
  \/ PairTick

SpecPair == InitPair /\ [][NextPair]_vars

\* What a caller of the store can observe of a job
Observable(job) ==
  [status |-> job.status, nextRunAt |-> job.nextRunAt,
   attempts |-> job.attempts, priority |-> job.priority,
   lockedAt |-> job.lockedAt, lockedBy |-> job.lockedBy]

\* C29: InMemoryJobStore and MongoJobStore are observably equivalent: after
\* every sequence of store operations with the same arguments and clock
\* values, the last call has returned the same result on both and every job
\* has the same status, nextRunAt, attempts, priority and lock fields.
C29_StoresEquivalent ==
  /\ last.result["memory"] = last.result["mongo"]
  /\ \A i \in StoreJobIds :
       Observable(jobs["memory"][i]) = Observable(jobs["mongo"][i])

\* ------------------------------------------------------------------------
\* The concurrency cap with jobs of several names: three jobs, so that one
\* job of a name can run while a second one of that name waits next to a
\* job of another name
\* ------------------------------------------------------------------------
CapJobIds == {1, 2, 3}

InitCap ==
  /\ store \in Stores
  /\ jobs \in [CapJobIds -> StoreTemplates]
  /\ now = 0
  /\ started = [s \in Schedulers |-> FALSE]
  /\ running = [s \in Schedulers |-> FALSE]
  /\ pc = [s \in Schedulers |-> "idle"]
  /\ snap = [s \in Schedulers |-> NoSnap]
  /\ hb = [s \in Schedulers |-> Absent]
  /\ updates = 0
  /\ stats = [on |-> FALSE, runs |-> 0, retries |-> 0, fails |-> 0]
  /\ last = NoCall

\* Workers poll, and finish the jobs they hold
NextCap ==
  \/ \E w \in WorkerIds : StoreFindAndLockNext(w)
  \/ \E i \in CapJobIds, w \in WorkerIds : StoreMarkCompleted(i, w)
  \/ StoreTick

SpecCap == InitCap /\ [][NextCap]_vars

\* The job's name has as many running jobs as its concurrency allows
AtCap(js, i) ==
  js[i].concurrency > 0 /\ RunningCount(js, js[i].name) >= js[i].concurrency

\* A job that is pending, due and not under an active lock
Ready(js, i, t) ==
  /\ js[i].status = "pending"
  /\ js[i].nextRunAt <= t
  /\ ~LockActive(js[i], t, LockTimeoutMs)

\* Job i is the best of the ready jobs by priority, then nextRunAt
BestReady(js, i, t) ==
  /\ Ready(js, i, t)
  /\ \A k \in DOMAIN js \ {i} : Ready(js, k, t) => MemoryBefore(js, i, k)

\* C30: when the best ready job is at its concurrency cap and a ready job
\* of another name is not, findAndLockNext skips the first, which stays
\* pending, and returns a job of another name that is below its cap
\* instead of null; and once the running count of its name is below the
\* cap again, the job that was skipped is returned by the poll in which
\* every other ready job is at its cap.
C30_SkipsCappedCandidate ==
  [][ last'.op = "findAndLockNext" =>
        /\ \A i \in CapJobIds :
             ( /\ BestReady(jobs, i, now)
               /\ AtCap(jobs, i)
               /\ \E k \in CapJobIds :
                    Ready(jobs, k, now) /\ ~AtCap(jobs, k)
                      /\ jobs[k].name # jobs[i].name )
             => /\ last'.result # 0
                /\ last'.result # i
                /\ jobs[last'.result].name # jobs[i].name
                /\ ~AtCap(jobs, last'.result)
                /\ jobs'[i] = jobs[i]
        /\ \A i \in CapJobIds :
             ( /\ Ready(jobs, i, now)
               /\ ~AtCap(jobs, i)
               /\ \A k \in CapJobIds \ {i} :
                    Ready(jobs, k, now) => AtCap(jobs, k) )
             => last'.result = i ]_vars

\* ------------------------------------------------------------------------
\* Interval repeats: one scheduler runs an interval job whose handler
\* succeeds, and getNextRunAt is called with interval specifications
\* ------------------------------------------------------------------------
MaxEvery == 2

IntervalTemplates ==
  {NewJob("b", [cron |-> 0, every |-> e], NoRetry, 0, DefaultPriority) :
     e \in 0..MaxEvery}

\* getNextRunAt was not called
NoPlan == [op |-> "none", repeat |-> NoRepeat, base |-> 0, result |-> 0]

InitInterval ==
  /\ store \in Stores
  /\ jobs \in [JobIds -> IntervalTemplates]
  /\ now = 0
  /\ started = [s \in Schedulers |-> FALSE]
  /\ running = [s \in Schedulers |-> FALSE]
  /\ pc = [s \in Schedulers |-> "idle"]
  /\ snap = [s \in Schedulers |-> NoSnap]
  /\ hb = [s \in Schedulers |-> Absent]
  /\ updates = 0
  /\ stats = [on |-> TRUE, runs |-> 0, retries |-> 0, fails |-> 0]
  /\ last = NoPlan

\* A call getNextRunAt({every}, base) with the current instant as base
PlanNextRun(every) ==
  /\ LET repeat == [cron |-> 0, every |-> every]
     IN last' = [op |-> "getNextRunAt", repeat |-> repeat, base |-> now,
                 result |-> GetNextRunAt(repeat, now)]
  /\ UNCHANGED <<store, jobs, now, workerVars>>

NextInterval ==
  \/ Start("A")
  \/ Stop("A")
  \/ Poll("A")
  \/ AfterPoll("A")
  \/ HandlerSucceed("A")
  \/ Heartbeat("A")
  \/ Tick
  \/ \E every \in 0..MaxEvery : PlanNextRun(every)

SpecInterval == InitInterval /\ [][NextInterval]_vars

\* The handler of scheduler s returned and execute() made its final write
Succeeds(s) == pc[s] = "handler" /\ pc'[s] = "idle"

\* After a successful run the interval job is pending again at completion
\* time + max(every, 100 ms)
IntervalFloorApplied ==
  \A s \in Schedulers :
    (Succeeds(s) /\ snap[s].repeat.every # Absent)
      => /\ jobs'[snap[s].id].status = "pending"
         /\ jobs'[snap[s].id].nextRunAt
              = now + Max(snap[s].repeat.every, MinEveryMs)
         /\ jobs'[snap[s].id].nextRunAt > now

\* C31 (as stated): for an interval repeat getNextRunAt returns
\* base + max(every, 100 ms), and after a successful run the worker
\* reschedules the job to completion time + max(every, 100 ms), also for
\* every = 0.
C31_IntervalFloor ==
  [][ /\ last'.op = "getNextRunAt"
          => last'.result = last'.base + Max(last'.repeat.every, MinEveryMs)
      /\ IntervalFloorApplied ]_vars

\* C31 (amended): after a successful run the worker reschedules an interval
\* job to completion time + max(every, 100 ms), also for every = 0;
\* getNextRunAt with spec.every returns base + every, without the floor,
\* so for every = 0 it returns its base.
C31_WorkerAppliesFloor ==
  [][ /\ last'.op = "getNextRunAt"
          => last'.result = last'.base + last'.repeat.every
      /\ IntervalFloorApplied ]_vars

\* An interval job with every = 0 was run and rescheduled one tick later,
\* and getNextRunAt({every: 0}, base) was called
C31_Witness ==
  /\ jobs[1].repeat.every = 0
  /\ stats.runs >= 1
  /\ pc["A"] = "idle"
  /\ jobs[1].status = "pending"
  /\ jobs[1].nextRunAt = now + MinEveryMs
  /\ last.op = "getNextRunAt"
  /\ last.repeat.every = 0
  /\ last.result = last.base

\* ------------------------------------------------------------------------
\* Several one-time jobs and one or two workers: the handlers return and
\* heartbeat timers fire on time; scheduler A keeps running, scheduler B
\* may be stopped and started again
\* ------------------------------------------------------------------------
OneTimeTemplates ==
  { NewJob("a", NoRepeat, NoRetry, 1, DefaultPriority),
    NewJob("a", NoRepeat, NoRetry, 1, 1),
    NewJob("b", NoRepeat, NoRetry, 0, DefaultPriority) }

InitOneTime ==
  /\ store \in Stores
  /\ jobs \in [StoreJobIds -> OneTimeTemplates]
  /\ now = 0
  /\ started = [s \in Schedulers |-> FALSE]
  /\ running = [s \in Schedulers |-> FALSE]
  /\ pc = [s \in Schedulers |-> "idle"]
  /\ snap = [s \in Schedulers |-> NoSnap]
  /\ hb = [s \in Schedulers |-> Absent]
  /\ updates = 0
  /\ stats = [on |-> TRUE, runs |-> 0, retries |-> 0, fails |-> 0]
  /\ last = NoCall

NextOneTime ==
  \/ \E s \in Schedulers : Start(s)
  \/ \E s \in Schedulers : Poll(s)
  \/ \E s \in Schedulers : AfterPoll(s)
  \/ \E s \in Schedulers : HandlerSucceed(s)
  \/ \E s \in Schedulers : Heartbeat(s)
  \/ Stop("B")
  \/ TimelyTick

\* Scheduler A is started; a started worker keeps polling, goes on after
\* each poll, and its handler returns
FairOneTime ==
  /\ WF_vars(Start("A"))
  /\ \A s \in Schedulers :
       WF_vars(Poll(s)) /\ WF_vars(AfterPoll(s)) /\ WF_vars(HandlerSucceed(s))

SpecOneTime == InitOneTime /\ [][NextOneTime]_vars /\ FairOneTime

\* The handler is running for job i
Invoked(i) == \E s \in Schedulers : pc[s] = "handler" /\ snap[s].id = i

\* C32: with worker A running for ever, fair scheduling and handlers that
\* return, every pending job that is due is eventually acquired and its
\* handler invoked, and N one-time jobs produce exactly N handler
\* invocations in total, with one worker or with two.
C32_EveryDueJobRunsOnce ==
  /\ \A i \in StoreJobIds :
       (jobs[i].status = "pending" /\ jobs[i].nextRunAt <= now) ~> Invoked(i)
  /\ [](stats.runs <= Cardinality(StoreJobIds))
  /\ <>[](stats.runs = Cardinality(StoreJobIds))

\* ------------------------------------------------------------------------
\* The execute phase with the events it emits: per worker, the events of
\* its current execution in the order of emission, and whether a renewLock
\* of this execution has failed. Jobs are cancelled, recovered by a starting
\* scheduler, or deleted from the collection while workers hold them.
\* ------------------------------------------------------------------------
NoTrace == [job |-> 0, events |-> <<>>, renewFailed |-> FALSE]

InitLifecycle ==
  /\ store \in Stores
  /\ jobs \in [JobIds -> Templates]
  /\ now = 0
  /\ started = [s \in Schedulers |-> FALSE]
  /\ running = [s \in Schedulers |-> FALSE]
  /\ pc = [s \in Schedulers |-> "idle"]
  /\ snap = [s \in Schedulers |-> NoSnap]
  /\ hb = [s \in Schedulers |-> Absent]
  /\ updates = 0
  /\ stats = [on |-> FALSE, runs |-> 0, retries |-> 0, fails |-> 0]
  /\ last = [s \in Schedulers |-> NoTrace]

\* emitSafe(event) by the worker of scheduler s, for each event of evs
Emit(s, evs) == last' = [last EXCEPT ![s].events = @ \o evs]

\* findById(jobId) returns null: the document is no longer in the collection
Missing(js, i) == js[i].status = "absent"

\* A client deletes the job's document from the MongoDB collection; the
\* workers that hold the job have not yet re-read it
Remove(i) ==
  /\ store = "mongo"
  /\ ~Missing(jobs, i)
  /\ \A s \in Schedulers : snap[s].id = i => pc[s] = "polled"
  /\ jobs' = [jobs EXCEPT ![i] = [@ EXCEPT !.status = "absent",
                                           !.lockedAt = Absent,
                                           !.lockedBy = NoWorker]]
  /\ UNCHANGED <<store, now, workerVars, last>>

\* The events of an execution that ends at the pre-flight check
AbortEvents(js, i, w) ==
  IF Missing(js, i) THEN <<>>
  ELSE IF js[i].status = "cancelled" THEN <<"job:complete">>
  ELSE <<"worker:error">>

\* Worker.loop after the poll, and the beginning of execute(): job:start,
\* the heartbeat loop, the re-read of the job and the pre-flight check.
\* A worker stopped during the poll leaves the loop with the job it was
\* given, and emits nothing for it.
Begin(s) ==
  /\ pc[s] = "polled"
  /\ IF snap[s].id = 0
     THEN /\ pc' = [pc EXCEPT ![s] = "idle"]
          /\ snap' = [snap EXCEPT ![s] = NoSnap]
          /\ UNCHANGED <<hb, last>>
     ELSE IF ~running[s]
     THEN /\ pc' = [pc EXCEPT ![s] = "idle"]
          /\ snap' = [snap EXCEPT ![s] = NoSnap]
          /\ hb' = hb
          /\ last' = [last EXCEPT ![s] = [NoTrace EXCEPT !.job = snap[s].id]]
     ELSE IF Missing(jobs, snap[s].id)
             \/ ~PreFlightOk(jobs, snap[s].id, WorkerIdOf(s))
     THEN /\ pc' = [pc EXCEPT ![s] = "idle"]
          /\ snap' = [snap EXCEPT ![s] = NoSnap]
          /\ hb' = [hb EXCEPT ![s] = Absent]
          /\ last' = [last EXCEPT ![s] =
               [job |-> snap[s].id,
                events |-> <<"job:start">>
                             \o AbortEvents(jobs, snap[s].id, WorkerIdOf(s)),
                renewFailed |-> FALSE]]
     ELSE /\ pc' = [pc EXCEPT ![s] =
                      IF snap[s].repeat.cron # 0 THEN "cron" ELSE "handler"]
          /\ snap' = [snap EXCEPT ![s].at = now]
          /\ hb' = [hb EXCEPT ![s] = now + HeartbeatIntervalMs]
          /\ last' = [last EXCEPT ![s] =
               [job |-> snap[s].id, events |-> <<"job:start">>,
                renewFailed |-> FALSE]]
  /\ UNCHANGED <<store, jobs, now, started, running, updates, stats>>

\* (variant: job:success is not emitted)
SuccessEvents_NoSuccess(job) == <<"job:complete">>

\* The events execute() emits after the handler returned
SuccessEvents(job) ==
  IF job.repeat = NoRepeat
  THEN <<"job:success", "job:complete">>
  ELSE <<"job:complete">>

\* execute(): the handler returns
Succeed(s) ==
  /\ pc[s] = "handler"
  /\ jobs' = FinishSuccess(store, jobs, snap[s], now)
  /\ pc' = [pc EXCEPT ![s] = "idle"]
  /\ snap' = [snap EXCEPT ![s] = NoSnap]
  /\ hb' = [hb EXCEPT ![s] = Absent]
  /\ Emit(s, SuccessEvents(snap[s]))
  /\ UNCHANGED <<store, now, started, running, updates, stats>>

\* execute(): the handler throws; reschedule and job:retry, or update of
\* the attempts before markFailed
Fail(s) ==
  /\ pc[s] = "handler"
  /\ LET job == snap[s]
         attempts == job.attempts + 1
         retry == NormalizeRetry(job.retry)
     IN IF ShouldRetry(retry, attempts)
        THEN /\ jobs' = Reschedule(store, jobs, job.id,
                                   now + GetRetryDelay(retry, attempts), attempts)
             /\ pc' = [pc EXCEPT ![s] = "idle"]
             /\ snap' = [snap EXCEPT ![s] = NoSnap]
             /\ hb' = [hb EXCEPT ![s] = Absent]
             /\ Emit(s, <<"job:retry">>)
        ELSE /\ jobs' = UpdateAttempts(store, jobs, job.id, attempts)
             /\ pc' = [pc EXCEPT ![s] = "failing"]
             /\ UNCHANGED <<snap, hb, last>>
  /\ UNCHANGED <<store, now, started, running, updates, stats>>

\* execute(): markFailed and job:fail
FailPermanently(s) ==
  /\ pc[s] = "failing"
  /\ jobs' = MarkFailed(store, jobs, snap[s].id)
  /\ pc' = [pc EXCEPT ![s] = "idle"]
  /\ snap' = [snap EXCEPT ![s] = NoSnap]
  /\ hb' = [hb EXCEPT ![s] = Absent]
  /\ Emit(s, <<"job:fail">>)
  /\ UNCHANGED <<store, now, started, running, updates, stats>>

\* (variant: the heartbeat loop goes on after a failed renewLock)
AfterRenewFailure_Continue(t) == t + HeartbeatIntervalMs

\* heartbeatLoop: the catch block ends the loop with break
AfterRenewFailure(t) == Absent

\* heartbeatLoop: one renewLock once the interval has passed; a failed
\* renewal emits worker:error
Renew(s) ==
  /\ hb[s] # Absent
  /\ now >= hb[s]
  /\ IF RenewMatches(jobs, snap[s].id, WorkerIdOf(s))
     THEN /\ jobs' = RenewLock(jobs, snap[s].id, now)
          /\ hb' = [hb EXCEPT ![s] = now + HeartbeatIntervalMs]
          /\ last' = last
     ELSE /\ jobs' = jobs
          /\ hb' = [hb EXCEPT ![s] = AfterRenewFailure(now)]
          /\ last' = [last EXCEPT ![s].events = Append(@, "worker:error"),
                                  ![s].renewFailed = TRUE]
  /\ UNCHANGED <<store, now, started, running, pc, snap, updates, stats>>

\* Scheduler.cancel(jobId) of a job that is in the collection
CancelExisting(i) ==
  /\ ~Missing(jobs, i)
  /\ Cancel(i)

NextLifecycle ==
  \/ \E s \in Schedulers : Start(s)
  \/ \E s \in Schedulers : Stop(s)
  \/ \E s \in Schedulers : Poll(s)
  \/ \E s \in Schedulers : Begin(s)
  \/ \E s \in Schedulers : CronPreSchedule(s)
  \/ \E s \in Schedulers : Succeed(s)
  \/ \E s \in Schedulers : Fail(s)
  \/ \E s \in Schedulers : FailPermanently(s)
  \/ \E s \in Schedulers : Renew(s)
  \/ \E i \in JobIds : CancelExisting(i)
  \/ \E i \in JobIds : Remove(i)
  \/ Tick

SpecLifecycle == InitLifecycle /\ [][NextLifecycle]_vars

\* The worker of scheduler s goes from the poll into execute() with a job
Executes(s) ==
  pc[s] = "polled" /\ pc'[s] # "polled" /\ running[s] /\ snap[s].id # 0

\* C33: the handler is invoked for an acquired job only if the re-read
\* finds the job present, not cancelled, running and locked by this worker;
\* otherwise the execution ends at once: silently when the job is absent,
\* with job:complete when it is cancelled, with worker:error in the other
\* cases, and every such abort stops the heartbeat and leaves the job as
\* it is.
C33_PreFlightGuardsHandler ==
  [][ \A s \in Schedulers :
        Executes(s) =>
          LET i == snap[s].id
              present == jobs[i].status # "absent"
              owned == /\ present
                       /\ jobs[i].status = "running"
                       /\ jobs[i].lockedBy = WorkerIdOf(s)
          IN IF owned
             THEN /\ pc'[s] \in {"cron", "handler"}
                  /\ last'[s].events = <<"job:start">>
             ELSE /\ pc'[s] = "idle"
                  /\ hb'[s] = Absent
                  /\ jobs' = jobs
                  /\ last'[s].events =
                       IF ~present THEN <<"job:start">>
                       ELSE IF jobs[i].status = "cancelled"
                       THEN <<"job:start", "job:complete">>
                       ELSE <<"job:start", "worker:error">> ]_vars

\* A worker found its job running under the other worker's lock and
\* aborted with worker:error
C33_Witness ==
  \E s \in Schedulers :
    /\ pc[s] = "idle"
    /\ last[s].events = <<"job:start", "worker:error">>
    /\ ~last[s].renewFailed
    /\ jobs[last[s].job].status = "running"
    /\ jobs[last[s].job].lockedBy \notin {NoWorker, WorkerIdOf(s)}

\* The heartbeat loop of scheduler s's worker issues a renewLock
RenewIssued(s) == hb[s] # Absent /\ hb'[s] # hb[s] /\ pc'[s] = pc[s]

\* ... and the call is rejected
RenewRejected(s) ==
  RenewIssued(s) /\ ~RenewMatches(jobs, snap[s].id, WorkerIdOf(s))

\* C34: the heartbeat loop of an execution terminates: a renewLock is
\* issued only while execute() is under way and no renewLock of this
\* execution has failed; the first failed renewLock emits worker:error and
\* ends the loop while the handler continues; and once execute() has ended,
\* by success, failure or abort, the loop is stopped.
C34_HeartbeatTerminates ==
  /\ [][ \A s \in Schedulers :
           /\ RenewIssued(s)
                => /\ pc[s] \in {"cron", "handler", "failing"}
                   /\ ~last[s].renewFailed
           /\ RenewRejected(s)
                => /\ hb'[s] = Absent
                   /\ last'[s].renewFailed
                   /\ last'[s].events = Append(last[s].events, "worker:error")
                   /\ jobs' = jobs ]_vars
  /\ [](\A s \in Schedulers : pc[s] \in {"idle", "polled"} => hb[s] = Absent)

\* A renewLock failed and the handler is still running, without heartbeat
C34_Witness ==
  \E s \in Schedulers :
    /\ pc[s] = "handler"
    /\ last[s].renewFailed
    /\ hb[s] = Absent
    /\ now > snap[s].at + HeartbeatIntervalMs

\* The job events of a trace, without the worker:error events
RECURSIVE JobEvents(_)
JobEvents(evs) ==
  IF evs = <<>> THEN <<>>
  ELSE IF Head(evs) = "worker:error" THEN JobEvents(Tail(evs))
  ELSE <<Head(evs)>> \o JobEvents(Tail(evs))

\* The worker of scheduler s is done with the job its poll returned
Done(s) ==
  /\ pc[s] \in {"polled", "handler", "failing"}
  /\ snap[s].id # 0
  /\ pc'[s] = "idle"

\* The four outcomes of an execution
Outcomes ==
  { <<"job:start", "job:success", "job:complete">>,
    <<"job:start", "job:complete">>,
    <<"job:start", "job:retry">>,
    <<"job:start", "job:fail">> }

\* The outcome that belongs to the way the execution of s ended
OutcomeMatches(s, evs) ==
  /\ pc[s] = "failing" => evs = <<"job:start", "job:fail">>
  /\ pc[s] = "handler" =>
       \/ evs = IF snap[s].repeat = NoRepeat
                THEN <<"job:start", "job:success", "job:complete">>
                ELSE <<"job:start", "job:complete">>
       \/ /\ evs = <<"job:start", "job:retry">>
          /\ snap[s].retry # NoRetry
          /\ snap[s].attempts + 1 < snap[s].retry.maxAttempts

\* C35 (as stated): for every acquired job the worker emits job:start
\* first and then exactly one outcome: job:success and job:complete for a
\* successful one-time job, job:complete alone for a successful repeating
\* job or a job found cancelled at the pre-flight check, job:retry for a
\* failure with retries left, job:fail for a permanent failure.
C35_OneOutcomePerAcquiredJob ==
  [][ \A s \in Schedulers :
        Done(s) =>
          /\ JobEvents(last'[s].events) \in Outcomes
          /\ OutcomeMatches(s, JobEvents(last'[s].events))
          /\ pc[s] = "polled" => jobs[snap[s].id].status = "cancelled" ]_vars

\* C35 (amended): for every job whose handler is invoked the worker emits
\* job:start first and then exactly one outcome, as listed. A job whose
\* execution ends at the pre-flight check gets job:start and then
\* job:complete when it is cancelled, and no outcome when it is absent or
\* the lock is lost (worker:error is emitted in the latter case); a job
\* returned by a poll during which the worker was stopped gets no event.
C35_OneOutcomePerExecution ==
  [][ \A s \in Schedulers :
        Done(s) =>
          LET evs == JobEvents(last'[s].events)
              i == snap[s].id
          IN IF pc[s] # "polled"
             THEN evs \in Outcomes /\ OutcomeMatches(s, evs)
             ELSE IF ~running[s] THEN last'[s].events = <<>>
             ELSE IF jobs[i].status = "cancelled"
             THEN evs = <<"job:start", "job:complete">>
             ELSE evs = <<"job:start">> ]_vars

\* One worker ran the job to job:success and job:complete; the other one,
\* which had acquired it before, ended at the pre-flight check without an
\* outcome
C35_Witness ==
  \E s, t \in Schedulers :
    /\ pc[s] = "idle" /\ pc[t] = "idle"
    /\ last[s].events = <<"job:start", "job:success", "job:complete">>
    /\ last[t].events = <<"job:start", "worker:error">>
    /\ last[t].job = last[s].job

\* The worker of scheduler s holds job i: it is between the return of the
\* poll and the end of execute() for it
Holds(s, i) ==
  snap[s].id = i /\ pc[s] \in {"polled", "cron", "handler", "failing"}

\* C36: a job that findAndLockNext has moved to running under a worker's
\* lock is executed by that worker or released: also when stop() was
\* signalled while the poll was in flight, the job is never running under
\* the lock of a worker that has left its loop without it.
C36_AcquiredJobNotStranded ==
  \A i \in JobIds : \A s \in Schedulers :
    (jobs[i].status = "running" /\ jobs[i].lockedBy = WorkerIdOf(s))
      => Holds(s, i)

\* C37: while the handler of a worker is executing a job that no cancel,
\* update or stale recovery has touched, the persisted job has status
\* running and lockedBy equal to that worker, so that its renewLock
\* succeeds and no other worker can acquire the job; for cron jobs as for
\* one-time and interval jobs.
C37_LockedWhileHandlerRuns ==
  \A s \in Schedulers :
    pc[s] = "handler" =>
      /\ jobs[snap[s].id].status = "running"
      /\ jobs[snap[s].id].lockedBy = WorkerIdOf(s)
      /\ RenewMatches(jobs, snap[s].id, WorkerIdOf(s))
      /\ snap[s].id \notin Candidates(store, jobs, now, LockTimeoutMs)

\* The worker of scheduler s makes one of its writes at the end of execute()
FinalWrite(s) == pc[s] \in {"handler", "failing"} /\ pc'[s] # pc[s]

\* Job i is running under the lock of another worker than that of s
LostLockTo(s, i) ==
  /\ jobs[i].status = "running"
  /\ jobs[i].lockedBy \in WorkerIds \ {WorkerIdOf(s)}

\* C38: a worker that has lost its lock on a job, which was recovered and
\* re-acquired by another worker, does not change the job by its reschedule
\* (interval repeat or retry) nor by its update and markFailed: status,
\* nextRunAt, attempts and the lock fields stay as the new owner set them.
C38_LostLockWritesNothing ==
  [][ \A s \in Schedulers :
        (FinalWrite(s) /\ LostLockTo(s, snap[s].id))
          => LET i == snap[s].id
             IN \/ jobs'[i].status = "completed"
                \/ /\ jobs'[i].status = jobs[i].status
                   /\ jobs'[i].nextRunAt = jobs[i].nextRunAt
                   /\ jobs'[i].attempts = jobs[i].attempts
                   /\ jobs'[i].lockedAt = jobs[i].lockedAt
                   /\ jobs'[i].lockedBy = jobs[i].lockedBy ]_vars

\* ------------------------------------------------------------------------
\* One Scheduler that is started, stopped and started again. The two slots
\* "A" and "B" of the worker variables stand here for the Worker object of
\* the first start() and the Worker object of the second start();
\* started["A"] is Scheduler.started. stop() without graceful returns while
\* the first worker may still be inside findAndLockNext or its handler.
\* ------------------------------------------------------------------------
\* No start() yet: no worker has an id, no job has been locked
NoRestart ==
  [starts |-> 0, ids |-> [g \in Schedulers |-> NoWorker],
   owner |-> [i \in JobIds |-> "none"]]

InitRestart ==
  /\ store \in Stores
  /\ jobs \in [JobIds -> Templates]
  /\ now = 0
  /\ started = [s \in Schedulers |-> FALSE]
  /\ running = [s \in Schedulers |-> FALSE]
  /\ pc = [s \in Schedulers |-> "idle"]
  /\ snap = [s \in Schedulers |-> NoSnap]
  /\ hb = [s \in Schedulers |-> Absent]
  /\ updates = 0
  /\ stats = [on |-> FALSE, runs |-> 0, retries |-> 0, fails |-> 0]
  /\ last = NoRestart

\* workerId: `${this.id}-w${i}`, with the scheduler's id and i = 0 at every
\* start()
NewWorkerId == WorkerIdOf("A")

\* Scheduler.start(): recoverStaleJobs, then new Worker(...) and
\* worker.start(); g is the Worker object this start() creates
StartAgain(g) ==
  /\ ~started["A"]
  /\ last.starts = (IF g = "A" THEN 0 ELSE 1)
  /\ started' = [started EXCEPT !["A"] = TRUE]
  /\ jobs' = RecoverStaleJobs(store, jobs, now, LockTimeoutMs)
  /\ running' = [running EXCEPT ![g] = TRUE]
  /\ last' = [last EXCEPT !.starts = @ + 1, !.ids[g] = NewWorkerId]
  /\ UNCHANGED <<store, now, pc, snap, hb, updates, stats>>

\* Scheduler.stop(): every worker's running flag is cleared and the workers
\* array is emptied; nothing is awaited
StopAll ==
  /\ started["A"]
  /\ started' = [started EXCEPT !["A"] = FALSE]
  /\ running' = [g \in Schedulers |-> FALSE]
  /\ UNCHANGED <<store, jobs, now, pc, snap, hb, updates, stats, last>>

\* Worker.loop of worker object g: the findAndLockNext call
PollAs(g) ==
  /\ pc[g] = "idle"
  /\ running[g]
  /\ pc' = [pc EXCEPT ![g] = "polled"]
  /\ LET c == Candidates(store, jobs, now, LockTimeoutMs) IN
       IF c = {}
       THEN /\ snap' = [snap EXCEPT ![g] = NoSnap]
            /\ jobs' = jobs
            /\ last' = last
       ELSE \E i \in c :
              /\ jobs' = LockJob(jobs, i, now, last.ids[g])
              /\ snap' = [snap EXCEPT ![g] = Snapshot(i, jobs'[i], now)]
              /\ last' = [last EXCEPT !.owner[i] = g]
  /\ UNCHANGED <<store, now, started, running, hb, updates, stats>>

\* Worker.loop of worker object g after the poll, and execute() up to the
\* pre-flight check
BeginAs(g) ==
  /\ pc[g] = "polled"
  /\ IF ~running[g] \/ snap[g].id = 0
     THEN /\ pc' = [pc EXCEPT ![g] = "idle"]
          /\ snap' = [snap EXCEPT ![g] = NoSnap]
          /\ hb' = hb
     ELSE IF ~PreFlightOk(jobs, snap[g].id, last.ids[g])
     THEN /\ pc' = [pc EXCEPT ![g] = "idle"]
          /\ snap' = [snap EXCEPT ![g] = NoSnap]
          /\ hb' = [hb EXCEPT ![g] = Absent]
     ELSE /\ pc' = [pc EXCEPT ![g] =
                      IF snap[g].repeat.cron # 0 THEN "cron" ELSE "handler"]
          /\ snap' = [snap EXCEPT ![g].at = now]
          /\ hb' = [hb EXCEPT ![g] = now + HeartbeatIntervalMs]
  /\ UNCHANGED <<store, jobs, now, started, running, updates, stats, last>>

\* heartbeatLoop of worker object g
RenewAs(g) ==
  /\ hb[g] # Absent
  /\ now >= hb[g]
  /\ IF RenewMatches(jobs, snap[g].id, last.ids[g])
     THEN /\ jobs' = RenewLock(jobs, snap[g].id, now)
          /\ hb' = [hb EXCEPT ![g] = now + HeartbeatIntervalMs]
     ELSE /\ jobs' = jobs
          /\ hb' = [hb EXCEPT ![g] = Absent]
  /\ UNCHANGED <<store, now, started, running, pc, snap, updates, stats, last>>

NextRestart ==
  \/ \E g \in Schedulers : StartAgain(g)
  \/ StopAll
  \/ \E g \in Schedulers : PollAs(g)
  \/ \E g \in Schedulers : BeginAs(g)
  \/ \E g \in Schedulers : CronPreSchedule(g)
  \/ \E g \in Schedulers : HandlerSucceed(g)
  \/ \E g \in Schedulers : HandlerFail(g)
  \/ \E g \in Schedulers : FailJob(g)
  \/ \E g \in Schedulers : RenewAs(g)
  \/ Tick

SpecRestart == InitRestart /\ [][NextRestart]_vars

\* Worker object g is still polling or executing
Active(g) == running[g] \/ pc[g] # "idle"

\* An ownership check accepts worker object g for job i: the pre-flight
\* check lets it go on to the handler, or its renewLock is applied
Accepted(g, i) ==
  /\ snap[g].id = i
  /\ \/ pc[g] = "polled" /\ pc'[g] \in {"cron", "handler"}
     \/ pc'[g] = pc[g] /\ hb[g] # Absent /\ hb'[g] \notin {Absent, hb[g]}

\* C39: no two workers that are still polling or executing share a
\* workerId, also after stop() and start() of the same scheduler while the
\* handler of the previous worker is in flight; so the ownership checks
\* accept a worker for a job only if it is the one that took the lock.
C39_WorkerIdsUnique ==
  /\ [](\A g, h \in Schedulers :
          (g # h /\ Active(g) /\ Active(h)) => last.ids[g] # last.ids[h])
  /\ [][ \A g \in Schedulers : \A i \in JobIds :
           Accepted(g, i) => last.owner[i] = g ]_vars

\* ------------------------------------------------------------------------
\* Cycles of a repeating job with retry: one scheduler with one worker, a
\* handler that may return or throw in every run. last counts the cycles
\* that ended with a successful run and the failed attempts of the cycle
\* that is under way.
\* ------------------------------------------------------------------------
NoCycle == [cycles |-> 0, tries |-> 0]

InitCycles ==
  /\ store \in Stores
  /\ jobs \in [JobIds -> RepeatRetryTemplates]
  /\ now = 0
  /\ started = [s \in Schedulers |-> FALSE]
  /\ running = [s \in Schedulers |-> FALSE]
  /\ pc = [s \in Schedulers |-> "idle"]
  /\ snap = [s \in Schedulers |-> NoSnap]
  /\ hb = [s \in Schedulers |-> Absent]
  /\ updates = 0
  /\ stats = [on |-> FALSE, runs |-> 0, retries |-> 0, fails |-> 0]
  /\ last = NoCycle

\* execute(): the handler returns; the cycle is over
HandlerReturns(s) ==
  /\ pc[s] = "handler"
  /\ jobs' = FinishSuccess(store, jobs, snap[s], now)
  /\ pc' = [pc EXCEPT ![s] = "idle"]
  /\ snap' = [snap EXCEPT ![s] = NoSnap]
  /\ hb' = [hb EXCEPT ![s] = Absent]
  /\ last' = [cycles |-> last.cycles + 1, tries |-> 0]
  /\ UNCHANGED <<store, now, started, running, updates, stats>>

\* execute(): the handler throws; the catch block retries or records the
\* attempts before markFailed
HandlerThrows(s) ==
  /\ pc[s] = "handler"
  /\ LET job == snap[s]
         attempts == job.attempts + 1
         retry == NormalizeRetry(job.retry)
     IN IF ShouldRetry(retry, attempts)
        THEN /\ jobs' = Reschedule(store, jobs, job.id,
                                   now + GetRetryDelay(retry, attempts), attempts)
             /\ pc' = [pc EXCEPT ![s] = "idle"]
             /\ snap' = [snap EXCEPT ![s] = NoSnap]
             /\ hb' = [hb EXCEPT ![s] = Absent]
        ELSE /\ jobs' = UpdateAttempts(store, jobs, job.id, attempts)
             /\ pc' = [pc EXCEPT ![s] = "failing"]
             /\ snap' = snap
             /\ hb' = hb
  /\ last' = [last EXCEPT !.tries = @ + 1]
  /\ UNCHANGED <<store, now, started, running, updates, stats>>

NextCycles ==
  \/ Start("A")
  \/ Poll("A")
  \/ AfterPoll("A")
  \/ CronPreSchedule("A")
  \/ HandlerReturns("A")
  \/ HandlerThrows("A")
  \/ FailJob("A")
  \/ Heartbeat("A")
  \/ Tick

SpecCycles == InitCycles /\ [][NextCycles]_vars

\* The run of s fails in this step
RunFails(s) == pc[s] = "handler" /\ last'.tries = last.tries + 1

\* C40: for a repeating job with retry, a failing run is retried whenever
\* fewer than maxAttempts attempts have been made in the current cycle,
\* whatever number of cycles succeeded before: successful runs do not use
\* up the retry budget.
C40_RetryBudgetPerCycle ==
  [][ \A i \in JobIds :
        (/\ RunFails("A")
         /\ snap["A"].id = i
         /\ last.tries + 1 < NormalizeRetry(snap["A"].retry).maxAttempts)
        => /\ pc'["A"] = "idle"
           /\ jobs'[i].status = "pending"
           /\ jobs'[i].repeat = snap["A"].repeat ]_vars

====
